---- MODULE Spec2Model ----
(***************************************************************************)
(* Verification model of the retrieval-augmented support bot:              *)
(*   - the conversation store        (src/app/database.py)                 *)
(*   - the query classifier          (src/app/services/query_translator.py)*)
(*   - the knowledge retriever       (src/app/services/vector_service.py)  *)
(*   - the context assembler         (src/app/services/context_builder.py) *)
(*   - the generation orchestrator   (src/app/services/ai_service.py)      *)
(*                                                                         *)
(* Three specifications share the variables of the module:                 *)
(*   Spec          the conversation store driven by its public operations  *)
(*   SpecPipeline  classify / search / generate with every backend outcome *)
(*   SpecAssemble  the context assembler applied to bounded histories      *)
(* Each specification leaves the variables of the others untouched.        *)
(***************************************************************************)
EXTENDS Integers, Sequences, FiniteSets, TLC

(***************************************************************************)
(* Bounds of the model.                                                    *)
(***************************************************************************)
\* Number of save_message calls explored (AUTOINCREMENT ids 1..MaxMessages).
MaxMessages == 3
\* Largest reading of the wall clock (abstract ticks).
MaxClock == 2

(***************************************************************************)
(* Program constants and enumerations.                                     *)
(***************************************************************************)
\* config.MESSAGE_HISTORY_LIMIT: read from the environment (default 20); the
\* model runs the store with a small configured value.
MESSAGE_HISTORY_LIMIT == 2

\* PersonaType (config.py) and MessageRole (models.py), by their values.
PersonaType == {"business", "bella", "ben"}
MessageRole == {"user", "assistant", "system"}

\* Conversations (chat_id).
Chats == {1, 2}

\* An optional argument (limit: int = None): <<>> is None, <<v>> the value v.
None == <<>>
Some(v) == <<v>>

Min(a, b) == IF a <= b THEN a ELSE b
Max(a, b) == IF a >= b THEN a ELSE b

VARIABLES
    \* ---- conversation store (SQLite) ----
    messages,       \* table messages: set of rows
    chat_states,    \* table chat_states: set of rows
    next_id,        \* next AUTOINCREMENT value of messages.id
    now,            \* reading of the local wall clock (datetime.now())
    utc_offset,     \* local time minus UTC, in ticks (fixed per deployment)
    recorded,       \* history: ids saved per chat since its last clear
    ret             \* what the last store operation returned to its caller

VARIABLES
    \* ---- classify / search / generate (one call in progress) ----
    entry,          \* the call being executed and its arguments
    pc,             \* the step the call has reached
    collection,     \* the vector index: set of indexed documents
    history,        \* generate: the history it fetched
    tq,             \* translate_query: backend outcome and returned value
    sr,             \* search_similar: backend outcomes and returned value
    vector_context, \* _get_vector_context: the knowledge text, or None
    context_messages, \* the sequence sent to the generation backend
    gen,            \* generate_response: backend outcome and returned value
    calls,          \* calls made to each backend during this call
    audit,          \* entries appended to the audit logs during this call
    \* ---- context assembler applied on its own ----
    asm             \* build_context_for_ai: its arguments and its result

storeVars == <<messages, chat_states, next_id, now, utc_offset, recorded, ret>>

pipeVars == <<entry, pc, collection, history, tq, sr, vector_context,
              context_messages, gen, calls, audit>>

VARIABLES
    \* ---- vector index service (VectorService, ChromaDB on disk) ----
    kb,             \* the knowledge-base directory: file name -> content
    file_hashes,    \* self._file_hashes: the hashes cached in memory
    client,         \* self.client: None until _initialize_client succeeds
    rebuilding,     \* activations of initialize_knowledge_base_sync under way
    pending,        \* add_document calls awaiting their embedding
    next_call,      \* number given to the next call of the index service
    built_from,     \* history: the corpus the last completed build read
    iret            \* what the last completed index call did and returned

idxVars == <<kb, file_hashes, client, rebuilding, pending, next_call,
             built_from, iret>>

VARIABLES
    \* ---- Telegram handlers ----
    updates,        \* the updates received and not yet handled, in order
    running,        \* the handler activations that have not ended
    next_update,    \* number given to the next update
    pairs           \* history: each saved reply with the request it answers

hndVars == <<updates, running, next_update, pairs>>

auxVars == <<asm, idxVars, hndVars>>

vars == <<storeVars, pipeVars, auxVars>>

(***************************************************************************)
(* Conversation store: src/app/database.py                                 *)
(***************************************************************************)

\* Message rows as save_message inserts them.  user_id and message_id are
\* stored but read by no query condition; last_activity likewise.
Message(id, chat_id, role, content, persona_type, created_at) ==
    [id |-> id, chat_id |-> chat_id, role |-> role, content |-> content,
     persona_type |-> persona_type, created_at |-> created_at]

\* A row of chat_states (last_activity is written but read by no condition).
ChatState(chat_id, current_persona, message_count) ==
    [chat_id |-> chat_id, current_persona |-> current_persona,
     message_count |-> message_count]

\* Mutant of create_default: another persona than the default one.
CreateDefaultBella(chat_id) == ChatState(chat_id, "bella", 0)

\* ChatState.create_default
create_default(chat_id) == ChatState(chat_id, "business", 0)

\* SELECT ... FROM chat_states WHERE chat_id = ?
StateRows(states, chat_id) == {s \in states : s.chat_id = chat_id}

\* Mutant of InsertOrReplace: the conflicting row is kept beside the new one.
InsertKeepsConflicting(states, row) == states \cup {row}

\* INSERT OR REPLACE INTO chat_states: chat_id is the PRIMARY KEY, so the
\* conflicting row is deleted before the new one is inserted.
InsertOrReplace(states, row) ==
    {s \in states : s.chat_id # row.chat_id} \cup {row}

\* Mutant of Coalesce: the stored value is not looked up.
CoalesceDefaultOnly(values, default) == default

\* COALESCE((SELECT col FROM chat_states WHERE chat_id = ?), default)
Coalesce(values, default) ==
    IF values = {} THEN default ELSE CHOOSE v \in values : TRUE

\* WHERE chat_id = ?
ChatRows(msgs, chat_id) == {m \in msgs : m.chat_id = chat_id}

\* Mutant of Newest: rows of equal created_at come out by ascending id.
NewestTiesSmallestId(S) ==
    CHOOSE m \in S : \A n \in S :
        \/ n.created_at < m.created_at
        \/ (n.created_at = m.created_at /\ n.id >= m.id)

\* ORDER BY created_at DESC.  Both queries are answered by a backward scan of
\* idx_messages_chat_created (chat_id, created_at), whose entries end with the
\* rowid: rows of equal created_at come out by descending id.
Newest(S) ==
    CHOOSE m \in S : \A n \in S :
        \/ n.created_at < m.created_at
        \/ (n.created_at = m.created_at /\ n.id <= m.id)

RECURSIVE OrderByCreatedAtDesc(_)
OrderByCreatedAtDesc(S) ==
    IF S = {} THEN <<>>
    ELSE LET m == Newest(S) IN <<m>> \o OrderByCreatedAtDesc(S \ {m})

\* LIMIT n
Limit(rows, n) == SubSeq(rows, 1, Min(n, Len(rows)))

\* list.reverse()
Reverse(s) == [i \in 1..Len(s) |-> s[Len(s) + 1 - i]]

Range(s) == {s[i] : i \in 1..Len(s)}

\* Mutant of UpdateMessageCount: the replaced row takes the default persona.
UpdateMessageCountResetsPersona(states, msgs, chat_id) ==
    InsertOrReplace(states,
        ChatState(chat_id, "business", Cardinality(ChatRows(msgs, chat_id))))

\* _update_message_count: INSERT OR REPLACE with the persona kept (or
\* 'business') and message_count = COUNT(*) of the chat's rows.
UpdateMessageCount(states, msgs, chat_id) ==
    InsertOrReplace(states,
        ChatState(chat_id,
                  Coalesce({s.current_persona : s \in StateRows(states, chat_id)},
                           "business"),
                  Cardinality(ChatRows(msgs, chat_id))))

\* Mutant of CleanupLimit: the subquery keeps one row too many.
CleanupLimitOffByOne == MESSAGE_HISTORY_LIMIT + 1

\* The LIMIT of the cleanup's subquery.
CleanupLimit == MESSAGE_HISTORY_LIMIT

\* Mutant of CleanupOldMessages: the DELETE is not restricted to the chat.
CleanupOldMessagesAnyChat(msgs, chat_id) ==
    LET keep == Range(Limit(OrderByCreatedAtDesc(ChatRows(msgs, chat_id)),
                            CleanupLimit))
    IN  {m \in msgs : m \in keep}

\* _cleanup_old_messages: DELETE ... WHERE chat_id = ? AND id NOT IN
\* (SELECT id ... ORDER BY created_at DESC LIMIT ?)
CleanupOldMessages(msgs, chat_id) ==
    LET keep == Range(Limit(OrderByCreatedAtDesc(ChatRows(msgs, chat_id)),
                            CleanupLimit))
    IN  {m \in msgs : m.chat_id # chat_id \/ m \in keep}

\* The rows get_chat_history selects, newest first.
HistoryRowsDesc(msgs, chat_id, limit, cutoff) ==
    LET rows == {m \in ChatRows(msgs, chat_id) :
                    cutoff = None \/ m.created_at >= cutoff[1]}
    IN  Limit(OrderByCreatedAtDesc(rows), limit)

\* Mutant of HistoryOrder: the rows are handed back as selected, newest first.
HistoryOrderNotReversed(rowsDesc) == rowsDesc

\* The order in which get_chat_history hands the rows back.
HistoryOrder(rowsDesc) == Reverse(rowsDesc)

\* get_chat_history(chat_id, limit, hours_back) evaluated at clock reading t.
\* limit = limit or MESSAGE_HISTORY_LIMIT; the cutoff is computed from the
\* epoch timestamp and rendered by datetime(?, 'unixepoch'), i.e. in UTC,
\* while created_at holds local wall-clock text.
get_chat_history(msgs, chat_id, limit, hours_back, t, offset) ==
    LET lim    == IF limit = None \/ limit = Some(0) THEN MESSAGE_HISTORY_LIMIT
                  ELSE limit[1]
        cutoff == IF hours_back = None THEN None
                  ELSE Some((t - offset) - hours_back[1])
    IN  HistoryOrder(HistoryRowsDesc(msgs, chat_id, lim, cutoff))

(***************************************************************************)
(* Inputs of the store operations.                                         *)
(***************************************************************************)
\* Roles and contents of the turns written in the store specification.
TurnRoles == {"user"}
TurnContents == {<<"w">>}
TurnPersonas == {"bella"}
Limits == {None, Some(1)}
HoursBack == {None, Some(1)}
UtcOffsets == {0}

\* The clock read by an operation: not earlier than the last reading.
ClockReadings == now..Min(now + 1, MaxClock)

StoreInit ==
    /\ messages = {}
    /\ chat_states = {}
    /\ next_id = 1
    /\ now = 0
    /\ utc_offset \in UtcOffsets
    /\ recorded = [c \in Chats |-> <<>>]
    /\ ret = [op |-> "none"]

\* The statements of save_message's transaction that may raise: the INSERT,
\* _update_message_count, _cleanup_old_messages and conn.commit().
SaveFailures == {"insert", "count", "cleanup", "commit"}

Tables(msgs, states) == [messages |-> msgs, chat_states |-> states]

\* The tables as the connection of save_message sees them when the statement
\* named by fail raises ("none": when all of them have run).
Written(msgs, states, row, fail) ==
    LET inserted == msgs \cup {row}
        counted  == UpdateMessageCount(states, inserted, row.chat_id)
        cleaned  == CleanupOldMessages(inserted, row.chat_id)
    IN  CASE fail = "insert"  -> Tables(msgs, states)
          [] fail = "count"   -> Tables(inserted, states)
          [] fail = "cleanup" -> Tables(inserted, counted)
          [] OTHER            -> Tables(cleaned, counted)

\* Mutant of Rollback: what the connection wrote stays.
RollbackKeepsWrites(before, written) == written

\* get_connection, except Exception: conn.rollback(); raise.  The INSERT
\* opened the transaction, so the tables are those of before the call.
Rollback(before, written) == before

\* save_message(message): one transaction (insert, counter, cleanup), with
\* message.created_at = datetime.now() as every caller builds it.  A statement
\* that raises ends the call with the rollback; the rowid is then not used up.
save_message(chat_id, role, content, persona_type) ==
    /\ next_id <= MaxMessages
    /\ \E t \in ClockReadings, fail \in {"none"} \cup SaveFailures :
        LET row     == Message(next_id, chat_id, role, content, persona_type, t)
            written == Written(messages, chat_states, row, fail)
            kept    == IF fail = "none" THEN written
                       ELSE Rollback(Tables(messages, chat_states), written)
        IN  /\ now' = t
            /\ chat_states' = kept.chat_states
            /\ messages' = kept.messages
            /\ IF fail = "none"
               THEN /\ next_id' = next_id + 1
                    /\ recorded' = [recorded EXCEPT
                                       ![chat_id] = Append(@, next_id)]
                    /\ ret' = [op |-> "save_message", chat_id |-> chat_id,
                               value |-> next_id, status |-> "return"]
               ELSE /\ UNCHANGED <<next_id, recorded>>
                    /\ ret' = [op |-> "save_message", chat_id |-> chat_id,
                               value |-> 0, status |-> "raise"]
    /\ UNCHANGED utc_offset

\* save_message called on its own: nothing else of the program moves.
SaveMessage(chat_id, role, content, persona_type) ==
    /\ save_message(chat_id, role, content, persona_type)
    /\ UNCHANGED <<pipeVars, auxVars>>

\* get_chat_history(chat_id, limit, hours_back)
GetChatHistory(chat_id, limit, hours_back) ==
    /\ \E t \in ClockReadings :
        /\ now' = t
        /\ ret' = [op |-> "get_chat_history", chat_id |-> chat_id,
                   limit |-> limit, hours_back |-> hours_back,
                   value |-> get_chat_history(messages, chat_id, limit,
                                              hours_back, t, utc_offset)]
    /\ UNCHANGED <<messages, chat_states, next_id, utc_offset, recorded>>
    /\ UNCHANGED <<pipeVars, auxVars>>

\* The persona of a chat as the store has it: that of its chat_states row,
\* the default one while it has none.
PersonaOf(states, chat_id) ==
    Coalesce({s.current_persona : s \in StateRows(states, chat_id)}, "business")

\* Mutant of ResetMessageCount: the row is replaced by a default one.
ResetMessageCountToDefault(states, chat_id) ==
    {IF s.chat_id = chat_id THEN ChatState(s.chat_id, "business", 0) ELSE s :
        s \in states}

\* UPDATE chat_states SET message_count = 0, last_activity = ...
\* WHERE chat_id = ?
ResetMessageCount(states, chat_id) ==
    {IF s.chat_id = chat_id THEN ChatState(s.chat_id, s.current_persona, 0)
     ELSE s : s \in states}

\* clear_chat_history(chat_id): DELETE the chat's rows, UPDATE the counter of
\* an existing chat_states row to 0; returns the number of deleted rows.
\* persona_before records the persona the chat had when the call began.
clear_chat_history(chat_id) ==
    /\ messages' = {m \in messages : m.chat_id # chat_id}
    /\ chat_states' = ResetMessageCount(chat_states, chat_id)
    /\ recorded' = [recorded EXCEPT ![chat_id] = <<>>]
    /\ ret' = [op |-> "clear_chat_history", chat_id |-> chat_id,
               value |-> Cardinality(ChatRows(messages, chat_id)),
               persona_before |-> PersonaOf(chat_states, chat_id)]
    /\ UNCHANGED <<next_id, now, utc_offset>>

\* clear_chat_history called on its own: nothing else of the program moves.
ClearChatHistory(chat_id) ==
    /\ clear_chat_history(chat_id)
    /\ UNCHANGED <<pipeVars, auxVars>>

\* get_chat_state(chat_id): the stored row, or a default one saved first.
\* after_clear records whether the call before this one was
\* clear_chat_history of the same chat, and the persona that call found.
get_chat_state(chat_id) ==
    /\ LET row == StateRows(chat_states, chat_id)
           after_clear ==
               IF ret.op = "clear_chat_history" /\ ret.chat_id = chat_id
               THEN Some(ret.persona_before) ELSE None
       IN
        IF row # {}
        THEN /\ chat_states' = chat_states
             /\ ret' = [op |-> "get_chat_state", chat_id |-> chat_id,
                        value |-> CHOOSE s \in row : TRUE,
                        after_clear |-> after_clear]
        ELSE /\ chat_states' = InsertOrReplace(chat_states,
                                               create_default(chat_id))
             /\ ret' = [op |-> "get_chat_state", chat_id |-> chat_id,
                        value |-> create_default(chat_id),
                        after_clear |-> after_clear]
    /\ UNCHANGED <<messages, next_id, now, utc_offset, recorded>>

\* get_chat_state called on its own: nothing else of the program moves.
GetChatState(chat_id) ==
    /\ get_chat_state(chat_id)
    /\ UNCHANGED <<pipeVars, auxVars>>

\* update_chat_persona(chat_id, persona): INSERT OR REPLACE keeping the count.
update_chat_persona(chat_id, persona) ==
    /\ chat_states' = InsertOrReplace(chat_states,
            ChatState(chat_id, persona,
                      Coalesce({s.message_count :
                                   s \in StateRows(chat_states, chat_id)}, 0)))
    /\ ret' = [op |-> "update_chat_persona", chat_id |-> chat_id,
               persona |-> persona]
    /\ UNCHANGED <<messages, next_id, now, utc_offset, recorded>>

\* update_chat_persona called on its own: nothing else of the program moves.
UpdateChatPersona(chat_id, persona) ==
    /\ update_chat_persona(chat_id, persona)
    /\ UNCHANGED <<pipeVars, auxVars>>

StoreNext ==
    \/ \E c \in Chats, r \in TurnRoles, x \in TurnContents, p \in TurnPersonas :
           SaveMessage(c, r, x, p)
    \/ \E c \in Chats, l \in Limits, h \in HoursBack : GetChatHistory(c, l, h)
    \/ \E c \in Chats : ClearChatHistory(c)
    \/ \E c \in Chats : GetChatState(c)
    \/ \E c \in Chats, p \in PersonaType : UpdateChatPersona(c, p)

(***************************************************************************)
(* Texts.  A text is a sequence of symbols: WS is one whitespace character,*)
(* any other symbol a run of non-whitespace characters.                    *)
(***************************************************************************)
WS == " "

\* str.strip(): leading and trailing whitespace removed.
RECURSIVE LStrip(_)
LStrip(t) == IF t # <<>> /\ Head(t) = WS THEN LStrip(Tail(t)) ELSE t

RECURSIVE RStrip(_)
RStrip(t) ==
    IF t # <<>> /\ t[Len(t)] = WS THEN RStrip(SubSeq(t, 1, Len(t) - 1)) ELSE t

Strip(t) == RStrip(LStrip(t))

\* The sentinel of the translation prompt, and config.ERROR_MESSAGE.
CASUAL_CHAT == <<"CASUAL_CHAT">>
ERROR_MESSAGE == <<"ERROR_MESSAGE">>

\* A function's way out: a returned value, or an exception raised.
Return(v) == [status |-> "return", value |-> v]
Raise == [status |-> "raise", value |-> <<>>]

(***************************************************************************)
(* Backend outcomes (classification and generation: POST                   *)
(* /v1/chat/completions through httpx).                                    *)
(***************************************************************************)
\* client.post raising (timeout, connection), raise_for_status raising
\* (non-2xx), resp.json() raising, "choices": [] (IndexError), and
\* "content": null.
BackendFailures ==
    {"network_error", "http_status", "invalid_json", "empty_choices",
     "null_content"}

\* Contents a 2xx response may carry in choices[0].message.content.
Contents ==
    {<<>>, <<WS>>, <<"CASUAL_CHAT">>, <<WS, "CASUAL_CHAT">>,
     <<"CASUAL_CHAT", WS>>, <<"w">>, <<WS, "w">>, <<"CASUAL_CHAT", "w">>}

BackendOutcomes ==
    {[kind |-> k, content |-> <<>>] : k \in BackendFailures}
        \cup {[kind |-> "ok", content |-> t] : t \in Contents}

(***************************************************************************)
(* Query classifier: src/app/services/query_translator.py                  *)
(***************************************************************************)
\* Mutant of IsBlank: only the empty string is taken for blank.
IsBlankEmptyOnly(query) == query = <<>>

\* not original_query or not original_query.strip()
IsBlank(query) == query = <<>> \/ Strip(query) = <<>>

\* _call_deepseek_translation: the stripped content, or an exception (any
\* failure of the call, or an empty translation).
CallDeepseekTranslation(outcome) ==
    IF outcome.kind # "ok" THEN Raise
    ELSE LET translated == Strip(outcome.content)
         IN  IF translated = <<>> THEN Raise ELSE Return(translated)

\* Mutant of MapSentinel: the sentinel is handed on as a query.
MapSentinelNever(translated) == Some(translated)

\* if translated_query == "CASUAL_CHAT": return None; else the translation.
MapSentinel(translated) ==
    IF translated = CASUAL_CHAT THEN None ELSE Some(translated)

\* Mutant of TranslateExcept: a failed translation yields no query.
TranslateExceptReturnsNone(original_query) == Return(None)

\* except Exception: return original_query
TranslateExcept(original_query) == Return(Some(original_query))

\* translate_query(original_query), the backend answering with `outcome` if it
\* is called.  backend_calls counts the calls made.
translate_query(original_query, outcome) ==
    IF IsBlank(original_query)
    THEN [status |-> "return", value |-> None, backend_calls |-> 0]
    ELSE LET r   == CallDeepseekTranslation(outcome)
             out == IF r.status = "raise" THEN TranslateExcept(original_query)
                    ELSE Return(MapSentinel(r.value))
         IN  [status |-> out.status, value |-> out.value, backend_calls |-> 1]

(***************************************************************************)
(* Knowledge retriever: src/app/services/vector_service.py (search)        *)
(***************************************************************************)
\* config.VECTOR_SEARCH_LIMIT, and config.VECTOR_SIMILARITY_THRESHOLD in
\* tenths (0.7).
VECTOR_SEARCH_LIMIT == 8
VECTOR_SIMILARITY_THRESHOLD == 7

\* Scores are exact fractions num/den; distances and thresholds are given in
\* tenths.
Frac(num, den) == [num |-> num, den |-> den]
FracLess(a, b) == a.num * b.den < b.num * a.den

\* Mutant of Similarity: 1 - distance at every distance.
SimilarityOneBand(d) == Frac(10 - d, 10)

\* The similarity search_similar computes from a distance d (tenths).
Similarity(d) ==
    IF d <= 10 THEN Frac(10 - d, 10)
    ELSE IF d <= 20 THEN Frac(20 - d, 20)
    ELSE Frac(10, 10 + d)

\* limit or config.VECTOR_SEARCH_LIMIT
SearchLimit(limit) ==
    IF limit = None \/ limit = Some(0) THEN VECTOR_SEARCH_LIMIT ELSE limit[1]

\* threshold or config.VECTOR_SIMILARITY_THRESHOLD
SimilarityThreshold(threshold) ==
    IF threshold = None \/ threshold = Some(0)
    THEN Frac(VECTOR_SIMILARITY_THRESHOLD, 10)
    ELSE Frac(threshold[1], 10)

\* The loop over the returned documents: convert, filter by the threshold.
RECURSIVE ConvertAndFilter(_, _)
ConvertAndFilter(neighbours, threshold) ==
    IF neighbours = <<>> THEN <<>>
    ELSE LET n    == Head(neighbours)
             sim  == Similarity(n.distance)
             rest == ConvertAndFilter(Tail(neighbours), threshold)
         IN  IF FracLess(sim, threshold) THEN rest
             ELSE <<[content |-> n.doc, similarity |-> sim,
                     distance |-> n.distance]>> \o rest

\* Mutant of InsertBySimilarity: a result goes before the results of equal
\* similarity already placed.
RECURSIVE InsertBeforeEqual(_, _)
InsertBeforeEqual(sorted, r) ==
    IF sorted = <<>> THEN <<r>>
    ELSE IF ~FracLess(r.similarity, Head(sorted).similarity)
         THEN <<r>> \o sorted
         ELSE <<Head(sorted)>> \o InsertBeforeEqual(Tail(sorted), r)

\* results.sort(key=similarity, reverse=True): stable, equal keys keep their
\* order.
RECURSIVE InsertBySimilarity(_, _)
InsertBySimilarity(sorted, r) ==
    IF sorted = <<>> THEN <<r>>
    ELSE IF FracLess(Head(sorted).similarity, r.similarity)
         THEN <<r>> \o sorted
         ELSE <<Head(sorted)>> \o InsertBySimilarity(Tail(sorted), r)

RECURSIVE SortBySimilarityDesc(_)
SortBySimilarityDesc(results) ==
    IF results = <<>> THEN <<>>
    ELSE InsertBySimilarity(
            SortBySimilarityDesc(SubSeq(results, 1, Len(results) - 1)),
            results[Len(results)])

\* Documents of the index and the distances a query may report (tenths).
Docs == {"d1", "d2"}
Distances == {0, 3, 10, 15, 20, 25}

\* collection.query(n_results = k): the k nearest documents (all of them if
\* fewer), nearest first, at distances the opaque embedding decides.
Neighbours(coll, k) ==
    LET n == Min(k, Cardinality(coll))
    IN  {s \in [1..n -> [doc : coll, distance : Distances]] :
            /\ \A i, j \in 1..n : i < j =>
                    /\ s[i].doc # s[j].doc
                    /\ s[i].distance <= s[j].distance}

\* What the index answers to a query: an exception, or neighbours.
IndexOutcomes(coll, k) ==
    {[kind |-> "error", neighbours |-> <<>>]}
        \cup {[kind |-> "ok", neighbours |-> s] : s \in Neighbours(coll, k)}

EmbeddingOutcomes == {"ok", "error"}

\* Mutant of SearchNeedsEmbedding: the collection's count is not looked at.
SearchNeedsEmbeddingNoCount(query, coll) == ~(Strip(query) = <<>>)

\* The guards search_similar passes before it embeds the query.
SearchNeedsEmbedding(query, coll) ==
    ~(Strip(query) = <<>>) /\ ~(Cardinality(coll) = 0)

\* search_similar(query, limit, threshold) over collection coll; embedding and
\* index answer with the given outcomes when they are called.  Any exception
\* leaves as VectorServiceError.
search_similar(query, limit, threshold, coll, embedding, index) ==
    IF ~SearchNeedsEmbedding(query, coll)
    THEN [status |-> "return", value |-> <<>>,
          embedding_calls |-> 0, index_queries |-> 0]
    ELSE IF embedding = "error"
    THEN [status |-> "raise", value |-> <<>>,
          embedding_calls |-> 1, index_queries |-> 0]
    ELSE IF index.kind = "error"
    THEN [status |-> "raise", value |-> <<>>,
          embedding_calls |-> 1, index_queries |-> 1]
    ELSE [status |-> "return",
          value |-> SortBySimilarityDesc(
                        ConvertAndFilter(index.neighbours,
                                         SimilarityThreshold(threshold))),
          embedding_calls |-> 1, index_queries |-> 1]

(***************************************************************************)
(* Prompt service and context assembler:                                   *)
(* src/app/services/prompt_service.py, src/app/services/context_builder.py *)
(***************************************************************************)
\* ContextBuilder.system_prompt_threshold
system_prompt_threshold == 5

\* The prompt template get_system_prompt starts from: the persona's file, with
\* or without the {promotions} and {context} placeholders, or the built-in
\* default prompt (file missing, unreadable or empty), which has neither.
Template(source, has_promotions, has_context) ==
    [source |-> source, has_promotions |-> has_promotions,
     has_context |-> has_context]

Templates ==
    {Template("default", FALSE, FALSE)}
        \cup {Template("file", a, b) : a, b \in BOOLEAN}

\* What _load_promotions_text finds: nothing (None), or the file's text.
PromotionsFiles == {None, Some(<<"promotions.txt">>)}
PROMOTIONS_FILLER == <<"promotions unavailable">>

\* Python truthiness of an optional text / list.
Truthy(x) == x # None /\ x[1] # <<>>

\* get_system_prompt: the resolved prompt, by its parts: whose prompt it is,
\* where the template came from, the text put in place of {promotions} and the
\* knowledge put (as a section) in place of {context}; None where the prompt
\* carries no such part.
get_system_prompt(persona, promotions_info, context_info, template, promo_file) ==
    LET loaded == IF promotions_info = None THEN promo_file ELSE promotions_info
    IN  [persona    |-> persona,
         source     |-> template.source,
         promotions |-> IF ~template.has_promotions THEN None
                        ELSE IF Truthy(loaded) THEN loaded
                        ELSE Some(PROMOTIONS_FILLER),
         context    |-> IF template.has_context /\ Truthy(context_info)
                        THEN context_info ELSE None]

\* Message.to_dict
to_dict(message) == [role |-> message.role, content |-> message.content]

SystemMessage(prompt) == [role |-> "system", content |-> prompt]

\* msg.role in [MessageRole.USER, MessageRole.ASSISTANT]
IsDialogueTurn(m) == m.role \in {"user", "assistant"}

\* Mutant of HistoryMessages: the history is appended as it came in.
HistoryMessagesUnfiltered(msgs) == msgs

\* The history turns build_context_for_ai appends.
HistoryMessages(msgs) == SelectSeq(msgs, IsDialogueTurn)

\* Mutant of NeedsDuplicate: the turns handed in are counted, not the turns
\* appended.
NeedsDuplicateByInputLength(msgs) == Len(msgs) > system_prompt_threshold

\* len(history_messages) > self.system_prompt_threshold
NeedsDuplicate(msgs) == Len(HistoryMessages(msgs)) > system_prompt_threshold

\* build_context_for_ai (the try block; with arguments of the declared types
\* none of its statements raises).
build_context_for_ai(msgs, persona, current_message_content, promotions_info, vector_ctx, template, promo_file) ==
    LET system_prompt == get_system_prompt(persona, promotions_info, vector_ctx,
                                           template, promo_file)
        hist == HistoryMessages(msgs)
    IN  <<SystemMessage(system_prompt)>>
            \o [i \in 1..Len(hist) |-> to_dict(hist[i])]
            \o (IF NeedsDuplicate(msgs) THEN <<SystemMessage(system_prompt)>>
                ELSE <<>>)
            \o <<[role |-> "user", content |-> current_message_content]>>

\* Where the try block of build_context_for_ai may raise: in
\* get_system_prompt (the template or a substitution, e.g. a promotions or
\* knowledge argument that str.replace rejects) or in the conversion of a
\* history element (one without role or to_dict); "none": nowhere.
AssembleFaults == {"none", "prompt", "history"}

\* Mutant of FallbackContext: the except block raises on.
FallbackContextReraises(persona, current_message_content) == Raise

\* The except block of build_context_for_ai: a generic system instruction
\* naming the persona, and the current message.
FallbackContext(persona, current_message_content) ==
    Return(<<SystemMessage([persona |-> persona, source |-> "fallback",
                            promotions |-> None, context |-> None]),
             [role |-> "user", content |-> current_message_content]>>)

\* build_context_for_ai as a whole: the try block, or the except block when
\* a statement of the try block raised.
assemble(msgs, persona, current_message_content, promotions_info, vector_ctx, template, promo_file, fault) ==
    IF fault = "none"
    THEN Return(build_context_for_ai(msgs, persona, current_message_content,
                                     promotions_info, vector_ctx, template,
                                     promo_file))
    ELSE FallbackContext(persona, current_message_content)

(***************************************************************************)
(* Generation orchestrator: src/app/services/ai_service.py                 *)
(***************************************************************************)
\* The arguments generate_response passes to get_chat_history.
GENERATE_HISTORY_LIMIT == 20
GENERATE_HOURS_BACK == 1

\* f"{similarity:.2f}": the score in hundredths, rounded.
Format2dp(sim) == (200 * sim.num + sim.den) \div (2 * sim.den)

\* The knowledge text _get_vector_context joins from the search results: one
\* part per result, "[relevance] content"; None for no results.
FormatContext(results) ==
    IF results = <<>> THEN None
    ELSE Some([i \in 1..Len(results) |->
                 [relevance |-> Format2dp(results[i].similarity),
                  content   |-> results[i].content]])

\* Mutant of SkipSearch: the search is skipped whatever the classifier said.
SkipSearchAlways(translated_query) == TRUE

\* _get_vector_context, lines 164-166: "if translated_query is None: return
\* None", before search_similar is called.
SkipSearch(translated_query) == translated_query = None

\* Mutant of GetVectorContextExcept: the exception of the retriever is raised
\* on, into the except block of generate_response.
GetVectorContextReraises == Raise

\* _get_vector_context, lines 220-223: except Exception: log a warning and
\* return None.
GetVectorContextExcept == Return(None)

\* _get_vector_context after search_similar came back with r: the formatted
\* results, or what the except block makes of an exception.
VectorContextOf(r) ==
    IF r.status = "raise" THEN GetVectorContextExcept
    ELSE Return(FormatContext(r.value))

\* Response extraction of generate_response: raise_for_status, resp.json(),
\* choices[0].message.content, and "if not response_text: raise".
ExtractResponse(outcome) ==
    IF outcome.kind # "ok" THEN Raise
    ELSE IF outcome.content = <<>> THEN Raise
    ELSE Return(outcome.content)

\* Mutant of GenerateExcept: the exception reaches the caller.
GenerateExceptReraises == Raise

\* except Exception: ... return config.ERROR_MESSAGE
GenerateExcept == Return(ERROR_MESSAGE)

\* Whether the audit file can be written when an entry is appended.
AuditSinkOutcomes == {"ok", "error"}

\* Mutant of AppendAuditLogExcept: the exception of the file goes on.
AppendAuditLogReraises(log, entry_tag) ==
    [status |-> "raise", log |-> Append(log, [entry |-> entry_tag,
                                              written |-> FALSE])]

\* _append_audit_log, lines 32-35: except Exception: pass
AppendAuditLogExcept(log, entry_tag) ==
    [status |-> "return", log |-> Append(log, [entry |-> entry_tag,
                                               written |-> FALSE])]

\* _append_audit_log(lines, path): the entry is appended to the file, or the
\* failure of the file is handled.  The log keeps every attempt.
append_audit_log(log, entry_tag, sink) ==
    IF sink = "ok"
    THEN [status |-> "return", log |-> Append(log, [entry |-> entry_tag,
                                                    written |-> TRUE])]
    ELSE AppendAuditLogExcept(log, entry_tag)

\* The except block of generate_response, lines 146-154: the audit entry of
\* the error, then ERROR_MESSAGE; an exception raised inside the block would
\* reach the caller.
ExceptBlock(log, sink, outcome, failed) ==
    LET a == append_audit_log(log, "error", sink)
        r == IF a.status = "raise" THEN Raise ELSE GenerateExcept
    IN  [audit |-> a.log,
         gen |-> [status |-> r.status, value |-> r.value,
                  outcome |-> outcome, failed |-> failed]]

\* The store specification runs no classify / search / generate call.
PipeIdle ==
    /\ entry = [op |-> "none"]
    /\ pc = "idle"
    /\ collection = {}
    /\ history = <<>>
    /\ tq = [status |-> "none"]
    /\ sr = [status |-> "none"]
    /\ vector_context = None
    /\ context_messages = <<>>
    /\ gen = [status |-> "none"]
    /\ calls = [translation |-> 0, embedding |-> 0, index_query |-> 0,
                generation |-> 0]
    /\ audit = <<>>

AsmIdle == asm = [status |-> "none"]

\* These specifications handle no update.
HndIdle ==
    /\ updates = <<>>
    /\ running = {}
    /\ next_update = 1
    /\ pairs = {}

\* These specifications make no call of the index service.
IdxIdle ==
    /\ kb = <<>>
    /\ file_hashes = <<>>
    /\ client = None
    /\ rebuilding = {}
    /\ pending = {}
    /\ next_call = 1
    /\ built_from = None
    /\ iret = [op |-> "none"]

Init == StoreInit /\ PipeIdle /\ AsmIdle /\ IdxIdle /\ HndIdle

Next == StoreNext

Spec == Init /\ [][Next]_vars

(***************************************************************************)
(* Specification SpecPipeline: one call of translate_query, search_similar *)
(* or generate_response, stepped from await to await, every backend        *)
(* answering with any of its outcomes.                                     *)
(***************************************************************************)
Queries ==
    {<<>>, <<WS>>, <<WS, WS>>, <<"w">>, <<WS, "w">>, <<"CASUAL_CHAT">>}
SearchLimits == {None, Some(1)}
SearchThresholds == {None, Some(0), Some(2), Some(10)}
GenerateMessages == {<<>>, <<"w">>}
GeneratePersonas == {"business", "bella"}
Collections == {{}, {"d1"}, {"d1", "d2"}}

Entry(op, chat_id, query, persona, limit, threshold) ==
    [op |-> op, chat_id |-> chat_id, query |-> query, persona |-> persona,
     limit |-> limit, threshold |-> threshold]

Entries ==
    {Entry("translate_query", 0, q, "business", None, None) : q \in Queries}
        \cup {Entry("search_similar", 0, q, "business", l, t) :
                 q \in Queries, l \in SearchLimits, t \in SearchThresholds}
        \cup {Entry("generate_response", 1, q, p, None, None) :
                 q \in GenerateMessages, p \in GeneratePersonas}

\* Store states a call may find: no turn yet, or the user turn the handler
\* saved just before calling generate_response.
StoreEmpty ==
    /\ messages = {}
    /\ chat_states = {}
    /\ next_id = 1
    /\ recorded = [c \in Chats |-> <<>>]

StoreOneTurn ==
    /\ messages = {Message(1, 1, "user", <<"w">>, "business", 1)}
    /\ chat_states = {ChatState(1, "business", 1)}
    /\ next_id = 2
    /\ recorded = [c \in Chats |-> IF c = 1 THEN <<1>> ELSE <<>>]

FirstStep(e) ==
    CASE e.op = "translate_query"   -> "translate"
      [] e.op = "search_similar"    -> "search"
      [] e.op = "generate_response" -> "fetch_history"

NoCalls ==
    [translation |-> 0, embedding |-> 0, index_query |-> 0, generation |-> 0]

NotCalled == [kind |-> "not_called", content |-> <<>>]

PipelineInit ==
    /\ (StoreEmpty \/ StoreOneTurn)
    /\ now = 1
    /\ utc_offset \in UtcOffsets
    /\ ret = [op |-> "none"]
    /\ entry \in Entries
    /\ pc = FirstStep(entry)
    /\ collection \in Collections
    /\ history = <<>>
    /\ tq = [status |-> "none"]
    /\ sr = [status |-> "none"]
    /\ vector_context = None
    /\ context_messages = <<>>
    /\ gen = [status |-> "none"]
    /\ calls = NoCalls
    /\ audit = <<>>
    /\ AsmIdle
    /\ IdxIdle
    /\ HndIdle

\* generate_response, line 78: the history of the last hour.  A failing store
\* raises into the except block of generate_response.
FetchHistory ==
    /\ pc = "fetch_history"
    /\ \E db \in {"ok", "error"} :
        IF db = "ok"
        THEN /\ history' = get_chat_history(messages, entry.chat_id,
                                            Some(GENERATE_HISTORY_LIMIT),
                                            Some(GENERATE_HOURS_BACK),
                                            now, utc_offset)
             /\ pc' = "translate"
             /\ UNCHANGED <<gen, audit>>
        ELSE /\ \E sink \in AuditSinkOutcomes :
                    LET x == ExceptBlock(audit, sink, NotCalled, "history")
                    IN  gen' = x.gen /\ audit' = x.audit
             /\ pc' = "done"
             /\ UNCHANGED history
    /\ UNCHANGED <<auxVars, storeVars, entry, collection, tq, sr, vector_context,
                   context_messages, calls>>

\* translate_query(entry.query), directly or from _get_vector_context.
Translate ==
    /\ pc = "translate"
    /\ \E outcome \in IF IsBlank(entry.query) THEN {NotCalled}
                      ELSE BackendOutcomes :
        LET r == translate_query(entry.query, outcome)
        IN  /\ tq' = [status |-> r.status, value |-> r.value,
                      outcome |-> outcome, backend_calls |-> r.backend_calls]
            /\ calls' = [calls EXCEPT !.translation = @ + r.backend_calls]
            /\ pc' = IF entry.op = "translate_query" THEN "done"
                     ELSE IF SkipSearch(r.value) THEN "build"
                     ELSE "search"
    /\ UNCHANGED <<auxVars, storeVars, entry, collection, history, sr, vector_context,
                   context_messages, gen, audit>>

\* search_similar, directly with the entry's arguments or from
\* _get_vector_context with the translated query and the defaults; in the
\* latter case the results become the knowledge text.
Search ==
    /\ pc = "search"
    /\ LET direct    == entry.op = "search_similar"
           query     == IF direct THEN entry.query ELSE tq.value[1]
           limit     == IF direct THEN entry.limit ELSE None
           threshold == IF direct THEN entry.threshold ELSE None
           needed    == SearchNeedsEmbedding(query, collection)
       IN  \E e \in IF needed THEN EmbeddingOutcomes ELSE {"not_called"} :
           \E ix \in IF needed /\ e = "ok"
                     THEN IndexOutcomes(collection, SearchLimit(limit))
                     ELSE {[kind |-> "not_called", neighbours |-> <<>>]} :
               LET r == search_similar(query, limit, threshold, collection,
                                       e, ix)
               IN  /\ sr' = [status |-> r.status, value |-> r.value,
                             query |-> query, embedding |-> e, index |-> ix,
                             embedding_calls |-> r.embedding_calls]
                   /\ calls' = [calls EXCEPT
                                   !.embedding = @ + r.embedding_calls,
                                   !.index_query = @ + r.index_queries]
                   /\ IF direct
                      THEN /\ pc' = "done"
                           /\ UNCHANGED <<vector_context, audit, gen>>
                      ELSE \E sink \in AuditSinkOutcomes,
                              sink2 \in AuditSinkOutcomes :
                           LET a  == IF r.status = "raise"
                                     THEN [status |-> "return", log |-> audit]
                                     ELSE append_audit_log(audit,
                                              "vector_search", sink)
                               vc == IF a.status = "raise"
                                     THEN GetVectorContextExcept
                                     ELSE VectorContextOf(r)
                               x  == ExceptBlock(a.log, sink2, NotCalled,
                                                 "retriever")
                           IN  IF vc.status = "return"
                               THEN /\ pc' = "build"
                                    /\ vector_context' = vc.value
                                    /\ audit' = a.log
                                    /\ UNCHANGED gen
                               ELSE /\ pc' = "done"
                                    /\ gen' = x.gen
                                    /\ audit' = x.audit
                                    /\ UNCHANGED vector_context
    /\ UNCHANGED <<auxVars, storeVars, entry, collection, history, tq,
                   context_messages>>

\* build_context_for_ai and the request's audit entry.
BuildContext ==
    /\ pc = "build"
    /\ \E template \in Templates, promo_file \in PromotionsFiles :
        context_messages' =
            build_context_for_ai(history, entry.persona, entry.query, None,
                                 vector_context, template, promo_file)
    /\ \E sink \in AuditSinkOutcomes, sink2 \in AuditSinkOutcomes :
        LET a == append_audit_log(audit, "request", sink)
            x == ExceptBlock(a.log, sink2, NotCalled, "audit")
        IN  IF a.status = "return"
            THEN /\ pc' = "backend"
                 /\ audit' = a.log
                 /\ UNCHANGED gen
            ELSE /\ pc' = "done"
                 /\ gen' = x.gen
                 /\ audit' = x.audit
    /\ UNCHANGED <<auxVars, storeVars, entry, collection, history, tq, sr,
                   vector_context, calls>>

\* The call of the generation backend, the extraction of its answer and the
\* except block around the whole of generate_response.
CallBackend ==
    /\ pc = "backend"
    /\ \E outcome \in BackendOutcomes, sink \in AuditSinkOutcomes,
          sink2 \in AuditSinkOutcomes :
        LET r == ExtractResponse(outcome)
            a == IF r.status = "return"
                 THEN append_audit_log(audit, "response", sink)
                 ELSE [status |-> "return", log |-> audit]
            x == ExceptBlock(a.log, sink2, outcome,
                             IF r.status = "raise" THEN "backend" ELSE "audit")
        IN  IF r.status = "return" /\ a.status = "return"
            THEN /\ gen' = [status |-> "return", value |-> r.value,
                            outcome |-> outcome, failed |-> "no"]
                 /\ audit' = a.log
            ELSE /\ gen' = x.gen
                 /\ audit' = x.audit
    /\ calls' = [calls EXCEPT !.generation = @ + 1]
    /\ pc' = "done"
    /\ UNCHANGED <<auxVars, storeVars, entry, collection, history, tq, sr,
                   vector_context, context_messages>>

PipelineNext ==
    \/ FetchHistory
    \/ Translate
    \/ Search
    \/ BuildContext
    \/ CallBackend

SpecPipeline == PipelineInit /\ [][PipelineNext]_vars

(***************************************************************************)
(* Specification SpecFetch: saves and fetches of the turn log, the process *)
(* running in any time zone.  utc_offset is local time minus UTC, in the   *)
(* unit of the clock (hours).                                              *)
(***************************************************************************)
TimeZones == {-1, 0, 1}

FetchInit ==
    /\ StoreEmpty
    /\ now = 0
    /\ utc_offset \in TimeZones
    /\ ret = [op |-> "none"]
    /\ PipeIdle
    /\ AsmIdle
    /\ IdxIdle
    /\ HndIdle

FetchNext ==
    \/ \E c \in Chats, r \in TurnRoles, x \in TurnContents, p \in TurnPersonas :
           SaveMessage(c, r, x, p)
    \/ \E c \in Chats, l \in Limits, h \in HoursBack : GetChatHistory(c, l, h)

SpecFetch == FetchInit /\ [][FetchNext]_vars

(***************************************************************************)
(* Specification SpecAssemble: build_context_for_ai applied once to        *)
(* arguments drawn from bounded sets.                                      *)
(***************************************************************************)
\* Longest history handed to the assembler.
MaxHistory == 6

\* The text of the i-th turn of a history: i words, so that no two turns of
\* a history carry the same text.
TurnText(i) == [j \in 1..i |-> "w"]

HistoriesUpTo(len) ==
    UNION {{[i \in 1..n |-> Message(i, 1, roles[i], TurnText(i), "business", i)] :
               roles \in [1..n -> MessageRole]} : n \in 0..len}

\* Histories: turns of any role, in chronological order.
Histories == HistoriesUpTo(MaxHistory)

\* The histories tried with a raising try block.
FaultHistoryLen == 2
CurrentMessage == <<"q">>

KnowledgeTexts ==
    {None, Some(<<[relevance |-> 85, content |-> "d1"]>>)}
PromotionsInfos == {None, Some(<<"promo">>)}

AssembleInit ==
    /\ StoreEmpty
    /\ now = 0
    /\ utc_offset \in UtcOffsets
    /\ ret = [op |-> "none"]
    /\ PipeIdle
    /\ IdxIdle
    /\ HndIdle
    /\ \E f \in AssembleFaults :
       \E h \in IF f = "none" THEN Histories ELSE HistoriesUpTo(FaultHistoryLen),
          p \in PersonaType, pi \in PromotionsInfos,
          vc \in KnowledgeTexts, t \in Templates :
           asm = [status |-> "ready", messages |-> h, persona |-> p,
                  current_message_content |-> CurrentMessage,
                  promotions_info |-> pi, vector_context |-> vc,
                  template |-> t, fault |-> f, outcome |-> "none",
                  result |-> <<>>]

\* context_builder.build_context_for_ai(...)
Assemble ==
    /\ asm.status = "ready"
    /\ LET r == assemble(asm.messages, asm.persona,
                         asm.current_message_content, asm.promotions_info,
                         asm.vector_context, asm.template, None, asm.fault)
       IN  asm' = [asm EXCEPT !.status = "done", !.outcome = r.status,
                                !.result = r.value]
    /\ UNCHANGED <<storeVars, pipeVars, idxVars, hndVars>>

AssembleNext == Assemble

SpecAssemble == AssembleInit /\ [][AssembleNext]_vars

(***************************************************************************)
(* Specification SpecIndex: the vector index service.  Callers make any    *)
(* sequence of initialize_knowledge_base_sync and add_document calls, the  *)
(* knowledge-base files change between them and the process restarts; the  *)
(* collection is kept on disk, the hash cache in memory.                   *)
(***************************************************************************)
\* Number of calls of the index service explored.
MaxCalls == 3
\* Microseconds since 1970 at the clock reading 0: above every line count.
ClockOrigin == 10

\* len(text): a whitespace symbol is one character, a word its characters.
SymbolLength(x) ==
    CASE x = WS -> 1
      [] x = "ninechars" -> 9
      [] x = "tencharsxx" -> 10
      [] OTHER -> 1

RECURSIVE TextLength(_)
TextLength(t) ==
    IF t = <<>> THEN 0 ELSE SymbolLength(Head(t)) + TextLength(Tail(t))

\* Lines of knowledge-base files.
Long1 == <<"tencharsxx">>
Long2 == <<"d", WS, "tencharsxx">>
PaddedLong1 == <<WS, "tencharsxx", WS>>
PaddedShort == <<WS, "ninechars", WS>>
BlankLine == <<WS>>

\* A file on disk: its lines, or a file that cannot be read as UTF-8 text.
File(lines) == [readable |-> TRUE, lines |-> lines]
Unreadable == [readable |-> FALSE, lines |-> <<>>]

\* The files of the knowledge-base directory; config.PROMOTIONS_FILE is
\* prompts/promotions.txt.
KbFiles == {"rules.txt", "faq.txt", "Promotions.txt", "notes.md"}
EndsWithTxt(file) == file \in {"rules.txt", "faq.txt", "Promotions.txt"}
IsPromotionsFile(file) == file = "Promotions.txt"

Directory(files) == [exists |-> TRUE, files |-> files]
KbMissing == [exists |-> FALSE, files |-> <<>>]

BaseFiles ==
    [f \in KbFiles |->
        CASE f = "rules.txt" -> File(<<PaddedLong1, BlankLine, PaddedShort, Long1>>)
          [] f = "faq.txt" -> File(<<Long2>>)
          [] f = "Promotions.txt" -> File(<<Long1>>)
          [] OTHER -> File(<<Long2>>)]

\* The corpora tried: the base corpus, one file of it changed, a corpus
\* without any line long enough, and a missing directory.
Corpora ==
    {Directory(BaseFiles),
     Directory([BaseFiles EXCEPT !["rules.txt"] = File(<<Long2, PaddedShort>>)]),
     Directory([BaseFiles EXCEPT !["rules.txt"] = Unreadable]),
     Directory([BaseFiles EXCEPT !["notes.md"] = File(<<Long1>>)]),
     Directory([BaseFiles EXCEPT !["rules.txt"] = File(<<PaddedShort>>),
                                 !["faq.txt"] = File(<<BlankLine>>)]),
     KbMissing}

\* os.walk lists the files in an order the file system decides.
WalkOrders ==
    {<<"rules.txt", "faq.txt", "Promotions.txt", "notes.md">>,
     <<"notes.md", "Promotions.txt", "faq.txt", "rules.txt">>}

\* _get_file_hash: sha256 of the content (one hash per content), "" for a
\* file that cannot be read.
get_file_hash(file) == IF file.readable THEN <<file.lines>> ELSE <<>>

\* The hashes of the .txt files, as _should_rebuild_vectors computes them.
CurrentHashes(dir) ==
    [f \in {g \in DOMAIN dir.files : EndsWithTxt(g)} |->
        get_file_hash(dir.files[f])]

VECTOR_REBUILD_ON_CHANGES == TRUE

\* _should_rebuild_vectors: the answer and the cache it leaves.
should_rebuild_vectors(dir, cache) ==
    IF ~VECTOR_REBUILD_ON_CHANGES \/ ~dir.exists
    THEN [rebuild |-> FALSE, cache |-> cache]
    ELSE IF CurrentHashes(dir) # cache
         THEN [rebuild |-> TRUE, cache |-> CurrentHashes(dir)]
         ELSE [rebuild |-> FALSE, cache |-> cache]

\* [line.strip() for line in content.split('\n') if line.strip()]
StrippedLines(lines) ==
    SelectSeq([i \in 1..Len(lines) |-> Strip(lines[i])], LAMBDA l : l # <<>>)

MIN_LINE_LENGTH == 10

\* Mutant of TooShort: no line is too short.
TooShortNever(line) == FALSE

\* if len(line) < 10: continue
TooShort(line) == TextLength(line) < MIN_LINE_LENGTH

\* The documents one file contributes, with the metadata kept of each.
FileDocuments(file, content) ==
    LET lines == StrippedLines(content.lines)
        kept  == SelectSeq([i \in 1..Len(lines) |-> i],
                           LAMBDA i : ~TooShort(lines[i]))
    IN  [k \in 1..Len(kept) |->
            [document |-> lines[kept[k]], file |-> file,
             line_number |-> kept[k]]]

\* The files the walk leaves out: not .txt, the promotions file, unreadable.
SkipFile(file, content) ==
    \/ ~EndsWithTxt(file)
    \/ IsPromotionsFile(file)
    \/ ~content.readable

\* The walk over the directory: the documents of every file, in walk order.
RECURSIVE CollectDocuments(_, _)
CollectDocuments(dir, order) ==
    IF order = <<>> THEN <<>>
    ELSE LET file == Head(order)
             rest == CollectDocuments(dir, Tail(order))
         IN  IF SkipFile(file, dir.files[file]) THEN rest
             ELSE FileDocuments(file, dir.files[file]) \o rest

\* ids.append(f"doc_{doc_counter}"): the entries of the batch.
BatchEntries(documents) ==
    {[id |-> k, document |-> documents[k].document,
      file |-> documents[k].file, line_number |-> documents[k].line_number] :
        k \in 1..Len(documents)}

\* Mutant of ClearCollection: one entry is deleted, the others stay.
ClearCollectionPartly(coll) == coll \ {CHOOSE e \in coll : TRUE}

\* if self.collection.count() > 0: delete_collection, create_collection
ClearCollection(coll) == {}

EntryIds(coll) == {e.id : e \in coll}

\* Mutant of ThreadFree: a call may start while a rebuild is under way.
ThreadAlwaysFree == TRUE

\* initialize_knowledge_base_sync is a plain function without await: from its
\* call to its return the only thread of the process runs nothing else.
ThreadFree == rebuilding = {}

\* _initialize_client: nothing to do with a client; else it may fail.
ClientOutcomes == IF client = None THEN {"ok", "error"} ELSE {"ok"}

BatchEmbeddingOutcomes == {"ok", "error", "mismatch"}

\* What an initialize_knowledge_base_sync call reports when it ends.
InitializeResult(call, status, path, embedding_calls, dir, built, before, after) ==
    [op |-> "initialize", call |-> call, status |-> status, path |-> path,
     embedding_calls |-> embedding_calls, kb |-> dir, built_from |-> built,
     before |-> before, after |-> after]

\* initialize_knowledge_base_sync, lines 144-211: the client, the decision to
\* rebuild, the clearing of the collection and the walk over the files.
BeginRebuild ==
    /\ next_call <= MaxCalls
    /\ ThreadFree
    /\ next_call' = next_call + 1
    /\ \E co \in ClientOutcomes, order \in WalkOrders :
        IF co = "error"
        THEN /\ iret' = InitializeResult(next_call, "raise", "client", 0, kb,
                                         built_from, collection, collection)
             /\ UNCHANGED <<client, file_hashes, collection, rebuilding,
                            built_from>>
        ELSE /\ client' = Some("PersistentClient")
             /\ IF ~kb.exists
                THEN /\ iret' = InitializeResult(next_call, "return", "missing",
                                    0, kb, built_from, collection, collection)
                     /\ UNCHANGED <<file_hashes, collection, rebuilding,
                                    built_from>>
                ELSE LET should == should_rebuild_vectors(kb, file_hashes)
                         docs == CollectDocuments(kb, order)
                     IN  /\ file_hashes' = should.cache
                         /\ IF ~should.rebuild /\ collection # {}
                            THEN /\ iret' = InitializeResult(next_call,
                                        "return", "skip", 0, kb, built_from,
                                        collection, collection)
                                 /\ UNCHANGED <<collection, rebuilding,
                                                built_from>>
                            ELSE /\ collection' =
                                        IF collection # {}
                                        THEN ClearCollection(collection)
                                        ELSE collection
                                 /\ IF docs = <<>>
                                    THEN /\ iret' = InitializeResult(next_call,
                                                "return", "empty", 0, kb,
                                                built_from, collection,
                                                collection')
                                         /\ built_from' = Some(kb)
                                         /\ UNCHANGED rebuilding
                                    ELSE /\ rebuilding' = rebuilding \cup
                                                {[call |-> next_call,
                                                  documents |-> docs,
                                                  kb |-> kb,
                                                  built_from |-> built_from,
                                                  before |-> collection]}
                                         /\ UNCHANGED <<iret, built_from>>
    /\ UNCHANGED <<kb, pending>>
    /\ UNCHANGED <<storeVars, asm, hndVars, entry, pc, history, tq, sr, vector_context,
                   context_messages, gen, calls, audit>>

\* initialize_knowledge_base_sync, lines 216-245: the embeddings of the batch
\* and the insertion into the collection.
FinishRebuild ==
    /\ \E r \in rebuilding, e \in BatchEmbeddingOutcomes :
        /\ rebuilding' = rebuilding \ {r}
        /\ IF e = "ok"
           THEN /\ collection' = collection \cup BatchEntries(r.documents)
                /\ built_from' = Some(r.kb)
                /\ iret' = InitializeResult(r.call, "return", "rebuilt", 1,
                                r.kb, r.built_from, r.before, collection')
           ELSE /\ iret' = InitializeResult(r.call, "raise", e, 1, r.kb,
                                r.built_from, r.before, collection)
                /\ UNCHANGED <<collection, built_from>>
    /\ UNCHANGED <<kb, file_hashes, client, pending, next_call>>
    /\ UNCHANGED <<storeVars, asm, hndVars, entry, pc, history, tq, sr, vector_context,
                   context_messages, gen, calls, audit>>

\* Contents a caller hands to add_document.
AddContents == {<<>>, <<WS>>, <<"d">>}

\* Mutant of ContentIsEmpty: only the empty string is refused.
ContentIsEmptyNoStrip(content) == content = <<>>

\* if not content.strip()
ContentIsEmpty(content) == Strip(content) = <<>>

\* doc_id = f"doc_{int(datetime.now().timestamp() * 1000000)}"
DocId(t) == ClockOrigin + t

\* What an add_document call reports when it ends.
AddResult(call, status, value, content, embedding_calls, before, after) ==
    [op |-> "add_document", call |-> call, status |-> status, value |-> value,
     content |-> content, embedding_calls |-> embedding_calls,
     before |-> before, after |-> after]

\* add_document, lines 363-373: up to the await of the embedding.
BeginAddDocument(content) ==
    /\ next_call <= MaxCalls
    /\ ThreadFree
    /\ next_call' = next_call + 1
    /\ \E co \in ClientOutcomes, t \in ClockReadings :
        IF co = "error"
        THEN /\ iret' = AddResult(next_call, "raise", 0, content, 0,
                                  collection, collection)
             /\ UNCHANGED <<client, pending, now>>
        ELSE /\ client' = Some("PersistentClient")
             /\ IF ContentIsEmpty(content)
                THEN /\ iret' = AddResult(next_call, "raise", 0, content, 0,
                                          collection, collection)
                     /\ UNCHANGED <<pending, now>>
                ELSE /\ now' = t
                     /\ pending' = pending \cup
                            {[call |-> next_call, doc_id |-> DocId(t),
                              content |-> content]}
                     /\ UNCHANGED iret
    /\ UNCHANGED <<kb, file_hashes, rebuilding, built_from, collection>>
    /\ UNCHANGED <<messages, chat_states, next_id, utc_offset, recorded, ret>>
    /\ UNCHANGED <<asm, hndVars, entry, pc, history, tq, sr, vector_context,
                   context_messages, gen, calls, audit>>

\* collection.add with an id the collection already holds: the library
\* either ignores the entry or raises, depending on its version.
DuplicateIdOutcomes == {"ignored", "error"}

\* add_document, lines 373-401: the embedding arrives, the entry is added.
FinishAddDocument ==
    /\ ThreadFree
    /\ \E p \in pending, e \in EmbeddingOutcomes, dup \in DuplicateIdOutcomes :
        /\ pending' = pending \ {p}
        /\ IF e = "error"
           THEN /\ iret' = AddResult(p.call, "raise", 0, p.content, 1,
                                     collection, collection)
                /\ UNCHANGED collection
           ELSE IF p.doc_id \in EntryIds(collection)
                THEN /\ iret' = AddResult(p.call,
                                    IF dup = "ignored" THEN "return" ELSE "raise",
                                    IF dup = "ignored" THEN p.doc_id ELSE 0,
                                    p.content, 1, collection, collection)
                     /\ UNCHANGED collection
                ELSE /\ collection' = collection \cup
                            {[id |-> p.doc_id, document |-> p.content,
                              file |-> "", line_number |-> 0]}
                     /\ iret' = AddResult(p.call, "return", p.doc_id,
                                    p.content, 1, collection, collection')
    /\ UNCHANGED <<kb, file_hashes, client, rebuilding, next_call, built_from>>
    /\ UNCHANGED <<storeVars, asm, hndVars, entry, pc, history, tq, sr, vector_context,
                   context_messages, gen, calls, audit>>

\* The files of the knowledge base are edited from outside the process.
EditFiles ==
    /\ \E dir \in Corpora \ {kb} : kb' = dir
    /\ UNCHANGED <<file_hashes, client, rebuilding, pending, next_call,
                   built_from, iret>>
    /\ UNCHANGED <<storeVars, pipeVars, asm, hndVars>>

\* The process ends and starts again: what is in memory is lost, the
\* collection on disk stays.
Restart ==
    /\ client # None
    /\ client' = None
    /\ file_hashes' = <<>>
    /\ rebuilding' = {}
    /\ pending' = {}
    /\ UNCHANGED <<kb, next_call, built_from, iret>>
    /\ UNCHANGED <<storeVars, pipeVars, asm, hndVars>>

IndexInit ==
    /\ StoreEmpty
    /\ now = 0
    /\ utc_offset \in UtcOffsets
    /\ ret = [op |-> "none"]
    /\ entry = [op |-> "none"]
    /\ pc = "idle"
    /\ collection = {}
    /\ history = <<>>
    /\ tq = [status |-> "none"]
    /\ sr = [status |-> "none"]
    /\ vector_context = None
    /\ context_messages = <<>>
    /\ gen = [status |-> "none"]
    /\ calls = NoCalls
    /\ audit = <<>>
    /\ AsmIdle
    /\ kb \in Corpora
    /\ file_hashes = <<>>
    /\ client = None
    /\ rebuilding = {}
    /\ pending = {}
    /\ next_call = 1
    /\ built_from = None
    /\ iret = [op |-> "none"]
    /\ HndIdle

IndexNext ==
    \/ BeginRebuild
    \/ FinishRebuild
    \/ \E content \in AddContents : BeginAddDocument(content)
    \/ FinishAddDocument
    \/ EditFiles
    \/ Restart

SpecIndex == IndexInit /\ [][IndexNext]_vars

(***************************************************************************)
(* Specification SpecHandler: the Telegram handlers.  Updates arrive in    *)
(* the queue of the Application, which hands them to start_command or      *)
(* message_handler; a handler runs from await to await, calling the store  *)
(* in between.                                                             *)
(***************************************************************************)
\* Number of updates explored.
MaxUpdates == 2

\* The texts of inbound messages: a question, a persona button.
QuestionText == <<"q">>
PersonaButtons == {<<"Bella">>}
MessageTexts == {QuestionText} \cup PersonaButtons

\* config.get_persona_type(button_text)
get_persona_type(button_text) ==
    CASE button_text = <<"Business mode">> -> "business"
      [] button_text = <<"Bella">> -> "bella"
      [] button_text = <<"Ben">> -> "ben"
      [] OTHER -> "business"

\* What generate_response may return: a reply of the backend, or the
\* fallback text; it raises nothing.
Responses == {<<"reply">>, ERROR_MESSAGE}

\* The store as a handler finds it: the stored turns and the next row id.
Snapshot(msgs, id) == [messages |-> msgs, next_id |-> id]
NoSnapshot == Snapshot({}, 0)

\* The first step of the handler an update is routed to: /start goes to
\* start_command, a persona button to _handle_persona_selection, any other
\* text to _handle_user_question.
FirstHandlerStep(u) ==
    IF u.kind = "start" THEN "clear"
    ELSE IF u.text \in PersonaButtons THEN "update_persona"
    ELSE "get_state"

\* A handler activation for an update.
Activation(u) ==
    [id |-> u.id, chat_id |-> u.chat_id, kind |-> u.kind, text |-> u.text,
     pc |-> FirstHandlerStep(u), persona |-> "", response |-> <<>>,
     request_id |-> 0, reply_id |-> 0,
     at_call |-> NoSnapshot, at_return |-> NoSnapshot]

\* An update arrives from Telegram.
Arrive(chat_id, kind, text) ==
    /\ next_update <= MaxUpdates
    /\ updates' = Append(updates, [id |-> next_update, chat_id |-> chat_id,
                                   kind |-> kind, text |-> text])
    /\ next_update' = next_update + 1
    /\ UNCHANGED <<running, pairs>>
    /\ UNCHANGED <<storeVars, pipeVars, asm, idxVars>>

\* Mutant of DispatchReady: updates are handled concurrently.
DispatchReadyConcurrent == TRUE

\* Application.builder().token(...).build() leaves concurrent_updates off and
\* the handlers blocking: the next update is taken from the queue when the
\* handling of the previous one has ended.
DispatchReady == running = {}

Dispatch ==
    /\ updates # <<>>
    /\ DispatchReady
    /\ running' = running \cup {Activation(Head(updates))}
    /\ updates' = Tail(updates)
    /\ UNCHANGED <<next_update, pairs>>
    /\ UNCHANGED <<storeVars, pipeVars, asm, idxVars>>

\* The activation h goes on as g.
Becomes(h, g) == running' = (running \ {h}) \cup {g}
Ends(h) == running' = running \ {h}

\* start_command: db_manager.clear_chat_history(chat_id)
HandlerClear(h) ==
    /\ h.pc = "clear"
    /\ clear_chat_history(h.chat_id)
    /\ Becomes(h, [h EXCEPT !.pc = "get_state"])
    /\ UNCHANGED <<updates, next_update, pairs>>
    /\ UNCHANGED <<pipeVars, asm, idxVars>>

\* start_command, _handle_user_question: db_manager.get_chat_state(chat_id);
\* start_command then awaits generate_response.
HandlerGetState(h) ==
    /\ h.pc = "get_state"
    /\ get_chat_state(h.chat_id)
    /\ Becomes(h, IF h.kind = "start"
                  THEN [h EXCEPT !.pc = "generate",
                                 !.persona = ret'.value.current_persona,
                                 !.at_call = Snapshot(messages', next_id')]
                  ELSE [h EXCEPT !.pc = "save_user",
                                 !.persona = ret'.value.current_persona])
    /\ UNCHANGED <<updates, next_update, pairs>>
    /\ UNCHANGED <<pipeVars, asm, idxVars>>

\* _handle_user_question: the user's message is saved, then generate_response
\* is awaited; an exception of the store goes to message_handler.
HandlerSaveUser(h) ==
    /\ h.pc = "save_user"
    /\ save_message(h.chat_id, "user", h.text, h.persona)
    /\ Becomes(h, IF ret'.status = "return"
                  THEN [h EXCEPT !.pc = "generate",
                                 !.request_id = ret'.value,
                                 !.at_call = Snapshot(messages', next_id')]
                  ELSE [h EXCEPT !.pc = "send_error"])
    /\ UNCHANGED <<updates, next_update, pairs>>
    /\ UNCHANGED <<pipeVars, asm, idxVars>>

\* await ai_service.generate_response(...): the call returns a text.  It
\* reads the history of the chat and writes nothing to the store.
HandlerGenerate(h) ==
    /\ h.pc = "generate"
    /\ \E response \in Responses :
        Becomes(h, [h EXCEPT !.pc = "save_reply", !.response = response,
                             !.at_return = Snapshot(messages, next_id)])
    /\ UNCHANGED <<updates, next_update, pairs>>
    /\ UNCHANGED <<storeVars, pipeVars, asm, idxVars>>

\* Mutant of ReplyRole: the reply is saved as a user turn.
ReplyRoleUser == "user"

\* role=MessageRole.ASSISTANT
ReplyRole == "assistant"

\* The returned text is saved as the assistant's turn, then sent.
HandlerSaveReply(h) ==
    /\ h.pc = "save_reply"
    /\ save_message(h.chat_id, ReplyRole, h.response, h.persona)
    /\ Becomes(h, IF ret'.status = "return"
                  THEN [h EXCEPT !.pc = "send", !.reply_id = ret'.value]
                  ELSE [h EXCEPT !.pc = "send_error"])
    /\ pairs' = IF ret'.status = "return" /\ h.request_id # 0
                THEN pairs \cup {[chat_id |-> h.chat_id,
                                  request |-> h.request_id,
                                  reply |-> ret'.value]}
                ELSE pairs
    /\ UNCHANGED <<updates, next_update>>
    /\ UNCHANGED <<pipeVars, asm, idxVars>>

\* _handle_persona_selection: db_manager.update_chat_persona, then the
\* confirmation is sent.
HandlerUpdatePersona(h) ==
    /\ h.pc = "update_persona"
    /\ update_chat_persona(h.chat_id, get_persona_type(h.text))
    /\ Becomes(h, [h EXCEPT !.pc = "send",
                            !.persona = get_persona_type(h.text)])
    /\ UNCHANGED <<updates, next_update, pairs>>
    /\ UNCHANGED <<pipeVars, asm, idxVars>>

\* await update.message.reply_text(...): sent, or an exception of Telegram.
HandlerSend(h) ==
    /\ h.pc = "send"
    /\ \E outcome \in {"ok", "error"} :
        IF outcome = "ok" THEN Ends(h)
        ELSE Becomes(h, [h EXCEPT !.pc = "send_error"])
    /\ UNCHANGED <<updates, next_update, pairs>>
    /\ UNCHANGED <<storeVars, pipeVars, asm, idxVars>>

\* await _send_error_message(update, context): the handler ends.
HandlerSendError(h) ==
    /\ h.pc = "send_error"
    /\ Ends(h)
    /\ UNCHANGED <<updates, next_update, pairs>>
    /\ UNCHANGED <<storeVars, pipeVars, asm, idxVars>>

\* The handler is suspended at an await.
Suspended(h) == h.pc \in {"generate", "send", "send_error"}

HandlerInit ==
    /\ StoreEmpty
    /\ now = 0
    /\ utc_offset \in UtcOffsets
    /\ ret = [op |-> "none"]
    /\ PipeIdle
    /\ AsmIdle
    /\ IdxIdle
    /\ updates = <<>>
    /\ running = {}
    /\ next_update = 1
    /\ pairs = {}

HandlerNext ==
    \/ \E c \in Chats : Arrive(c, "start", <<>>)
    \/ \E c \in Chats, x \in MessageTexts : Arrive(c, "text", x)
    \/ Dispatch
    \/ \E h \in running : HandlerClear(h)
    \/ \E h \in running : HandlerGetState(h)
    \/ \E h \in running : HandlerSaveUser(h)
    \/ \E h \in running : HandlerGenerate(h)
    \/ \E h \in running : HandlerSaveReply(h)
    \/ \E h \in running : HandlerUpdatePersona(h)
    \/ \E h \in running : HandlerSend(h)
    \/ \E h \in running : HandlerSendError(h)

SpecHandler == HandlerInit /\ [][HandlerNext]_vars

(***************************************************************************)
(* Properties of the conversation store (specification Spec).              *)
(***************************************************************************)
Ids(rows) == [i \in 1..Len(rows) |-> rows[i].id]

LastN(s, n) == SubSeq(s, Len(s) - n + 1, Len(s))

\* C1: in every reachable state of the store, each conversation holds at most
\* MESSAGE_HISTORY_LIMIT turns.
C1_TurnsBounded ==
    \A c \in Chats :
        Cardinality(ChatRows(messages, c)) <= MESSAGE_HISTORY_LIMIT

\* C1 witness: a save_message has just committed on a conversation that has
\* been written more than MESSAGE_HISTORY_LIMIT times, and the trim left
\* exactly MESSAGE_HISTORY_LIMIT turns.
C1_Witness ==
    /\ ret.op = "save_message"
    /\ ret.status = "return"
    /\ Len(recorded[ret.chat_id]) > MESSAGE_HISTORY_LIMIT
    /\ Cardinality(ChatRows(messages, ret.chat_id)) = MESSAGE_HISTORY_LIMIT

\* C2 (as claimed): in every committed state, message_count of a conversation
\* equals the number of turns stored for it.
C2_CountEqualsStored ==
    \A s \in chat_states :
        s.message_count = Cardinality(ChatRows(messages, s.chat_id))

GenerateDone == pc = "done" /\ entry.op = "generate_response"

\* The generation backend answered with a non-empty text.
NonEmptyText(outcome) == outcome.kind = "ok" /\ outcome.content # <<>>

AllWhitespace(text) == \A i \in 1..Len(text) : text[i] = WS

\* The classifier's backend call did not yield a text: transport error,
\* non-2xx status, malformed body, or a text that is empty once trimmed.
TranslationFailed(outcome) ==
    \/ outcome.kind \in BackendFailures
    \/ outcome.kind = "ok" /\ AllWhitespace(outcome.content)

\* C4: generate_response never raises; it returns the backend's text exactly
\* when the backend call succeeded with a non-empty text, and ERROR_MESSAGE in
\* every other case.
C4_GenerateNeverRaises ==
    GenerateDone =>
        /\ gen.status = "return"
        /\ gen.value = IF NonEmptyText(gen.outcome) THEN gen.outcome.content
                       ELSE ERROR_MESSAGE

\* C4 witness: the backend call failed in transport (a timeout or a network
\* error) and generate_response returned ERROR_MESSAGE.
C4_Witness ==
    /\ GenerateDone
    /\ gen.outcome.kind = "network_error"
    /\ gen.status = "return"
    /\ gen.value = ERROR_MESSAGE

\* A call made by generate_response raised: the history fetch, the retriever
\* or the generation backend call with the extraction of its answer.
StepRaised ==
    \/ gen.failed \in {"history", "retriever", "backend"}
    \/ sr.status = "raise"

\* C5 (as claimed): whenever any step of the generate chain fails, the
\* retriever included, generate_response returns ERROR_MESSAGE.
C5_AnyFailureGivesFallback ==
    (GenerateDone /\ StepRaised) => gen.value = ERROR_MESSAGE

\* C5 (amended): a failed history fetch or a failed generation backend call
\* makes generate_response return ERROR_MESSAGE; a failure of the retriever
\* is absorbed: the request goes on without knowledge text, the backend is
\* still called, and its non-empty text is what generate_response returns.
C5_RetrieverFailureAbsorbed ==
    GenerateDone =>
        /\ gen.failed \in {"history", "backend"} => gen.value = ERROR_MESSAGE
        /\ sr.status = "raise" =>
              /\ vector_context = None
              /\ calls.generation = 1
              /\ gen.failed \in {"no", "backend"}
              /\ NonEmptyText(gen.outcome) => gen.value = gen.outcome.content

\* C5 witness: the retriever raised, and generate_response returned the
\* backend's text, not ERROR_MESSAGE.
C5_Witness ==
    /\ GenerateDone
    /\ sr.status = "raise"
    /\ gen.failed = "no"
    /\ gen.value = <<"w">>

\* C6: when the classifier's backend call fails, translate_query returns the
\* original query unchanged and does not raise.
C6_FailOpen ==
    (tq.status # "none" /\ ~AllWhitespace(entry.query)
        /\ TranslationFailed(tq.outcome))
    => (tq.status = "return" /\ tq.value = Some(entry.query))

\* C6 witness: translate_query was called with a query padded with
\* whitespace, the backend failed in transport, and the query came back as it
\* went in.
C6_Witness ==
    /\ pc = "done"
    /\ entry.op = "translate_query"
    /\ entry.query = <<WS, "w">>
    /\ tq.outcome.kind = "network_error"
    /\ tq.value = Some(<<WS, "w">>)

\* C7: for an empty or whitespace-only query translate_query returns None
\* and makes no backend call.
C7_BlankNoBackendCall ==
    (tq.status # "none" /\ AllWhitespace(entry.query))
    => /\ tq.status = "return"
       /\ tq.value = None
       /\ tq.backend_calls = 0
       /\ calls.translation = 0

\* C7 witness: translate_query has returned None for a query of two
\* whitespace characters.
C7_Witness ==
    /\ pc = "done"
    /\ entry.op = "translate_query"
    /\ entry.query = <<WS, WS>>
    /\ tq.value = None

\* The text _call_deepseek_translation hands back on success: the content of
\* the response, trimmed.
ResponseText(outcome) == Strip(outcome.content)

\* C8: on a successful backend call translate_query returns None exactly when
\* the response text is the sentinel CASUAL_CHAT, and the response text
\* otherwise.
C8_SentinelMapsToNone ==
    (tq.status # "none" /\ ~AllWhitespace(entry.query)
        /\ ~TranslationFailed(tq.outcome))
    => /\ tq.status = "return"
       /\ (tq.value = None) <=> (ResponseText(tq.outcome) = CASUAL_CHAT)
       /\ ResponseText(tq.outcome) # CASUAL_CHAT
             => tq.value = Some(ResponseText(tq.outcome))

\* C8 witness: the backend answered with the sentinel and translate_query
\* returned None.
C8_Witness ==
    /\ pc = "done"
    /\ entry.op = "translate_query"
    /\ tq.outcome = [kind |-> "ok", content |-> <<"CASUAL_CHAT">>]
    /\ tq.value = None

\* C9: search_similar with an empty or whitespace-only query, or on an empty
\* collection, returns the empty list and makes no embedding call.
C9_NothingToSearch ==
    (sr.status # "none" /\ (AllWhitespace(sr.query) \/ collection = {}))
    => /\ sr.status = "return"
       /\ sr.value = <<>>
       /\ sr.embedding_calls = 0
       /\ calls.embedding = 0

\* C9 witness: search_similar has returned for a non-blank query on an empty
\* collection.
C9_Witness ==
    /\ pc = "done"
    /\ entry.op = "search_similar"
    /\ sr.query = <<"w">>
    /\ collection = {}
    /\ sr.value = <<>>

(***************************************************************************)
(* Properties of the context assembler (specification SpecAssemble).       *)
(***************************************************************************)
SystemPositions(out) == {i \in 1..Len(out) : out[i].role = "system"}

DialogueTurns(msgs) ==
    Cardinality({i \in 1..Len(msgs) : msgs[i].role \in {"user", "assistant"}})

NthDialogueTurn(msgs, j) ==
    LET idx == {i \in 1..Len(msgs) : msgs[i].role \in {"user", "assistant"}}
    IN  CHOOSE i \in idx : Cardinality({x \in idx : x < i}) = j - 1

\* C11: on the non-fallback path the sequence assembled is a system message,
\* then the user and assistant turns of the history in their input order (no
\* system-role turn of the history among them), then at most one more system
\* message, then a user message carrying the current message; its length is
\* the number of user and assistant turns plus 2 or 3.
C11_AssembledSequence ==
    (asm.status = "done" /\ asm.fault = "none") =>
        LET out == asm.result
            k   == DialogueTurns(asm.messages)
        IN  /\ Len(out) \in {k + 2, k + 3}
            /\ out[1].role = "system"
            /\ \A j \in 1..k :
                   LET m == asm.messages[NthDialogueTurn(asm.messages, j)]
                   IN  out[j + 1] = [role |-> m.role, content |-> m.content]
            /\ Len(out) = k + 3 => out[k + 2] = out[1]
            /\ out[Len(out)] = [role |-> "user",
                                content |-> asm.current_message_content]

\* C11 witness: a history with a system-role turn between user and
\* assistant turns has been assembled.
C11_Witness ==
    /\ asm.status = "done"
    /\ asm.fault = "none"
    /\ Len(asm.messages) = 3
    /\ asm.messages[1].role = "user"
    /\ asm.messages[2].role = "system"
    /\ asm.messages[3].role = "assistant"
    /\ Len(asm.result) = 4

\* C12: for every persona of PersonaType build_context_for_ai returns and
\* does not raise; when its try block raised it returns exactly two
\* messages, a system instruction naming the persona and a user message
\* carrying the current message.
C12_FallbackTwoMessages ==
    asm.status = "done" =>
        /\ asm.outcome = "return"
        /\ asm.fault # "none" =>
              /\ Len(asm.result) = 2
              /\ asm.result[1].role = "system"
              /\ asm.result[1].content.persona = asm.persona
              /\ asm.result[1].content.source = "fallback"
              /\ asm.result[2] = [role |-> "user",
                                  content |-> asm.current_message_content]

\* C12 witness: the conversion of a history of two turns raised, for persona
\* ben, and the two-message fallback came back.
C12_Witness ==
    /\ asm.status = "done"
    /\ asm.fault = "history"
    /\ asm.persona = "ben"
    /\ Len(asm.messages) = 2
    /\ Len(asm.result) = 2

(***************************************************************************)
(* Properties of the conversation state (specification Spec).              *)
(***************************************************************************)
\* C13: after clear_chat_history(c) the chat c has no stored turn, and a
\* get_chat_state(c) that follows it returns message_count 0 and the persona
\* c had when the clear began (the default persona if c had no state).
C13_ClearThenGetState ==
    /\ ret.op = "clear_chat_history" =>
           ChatRows(messages, ret.chat_id) = {}
    /\ (ret.op = "get_chat_state" /\ ret.after_clear # None) =>
           /\ ChatRows(messages, ret.chat_id) = {}
           /\ ret.value.message_count = 0
           /\ ret.value.current_persona = ret.after_clear[1]

\* C13 witness: get_chat_state has returned right after the clear of a chat
\* whose persona was ben, while the other chat still holds turns.
C13_Witness ==
    /\ ret.op = "get_chat_state"
    /\ ret.after_clear = Some("ben")
    /\ ret.value.message_count = 0
    /\ \E m \in messages : m.chat_id # ret.chat_id

\* C14: get_chat_state(c) on a chat without state stores and returns a state
\* with persona business and message_count 0; on a chat with a state it
\* returns the stored persona and count; in both cases it leaves the turns
\* and every stored state alone, so a second call right after returns the
\* same.
C14_GetStateUpsertOnRead ==
    [][ret'.op = "get_chat_state" =>
          LET c   == ret'.chat_id
              row == StateRows(chat_states, c)
          IN  /\ messages' = messages
              /\ IF row = {}
                 THEN /\ ret'.value = ChatState(c, "business", 0)
                      /\ chat_states' = chat_states \cup {ret'.value}
                 ELSE /\ ret'.value \in row
                      /\ chat_states' = chat_states
              /\ (ret.op = "get_chat_state" /\ ret.chat_id = c) =>
                     ret'.value = ret.value]_vars

\* C14 witness: get_chat_state has returned the state it created for a chat
\* that has no turn and whose clear found no state, while the other chat has
\* a state with another persona.
C14_Witness ==
    /\ ret.op = "get_chat_state"
    /\ ret.value = ChatState(ret.chat_id, "business", 0)
    /\ ret.after_clear = None
    /\ \E s \in chat_states : s.chat_id # ret.chat_id /\ s.current_persona = "bella"

\* C15: update_chat_persona(c, p) leaves c with persona p, with the
\* message_count it had before the call (0 if it had no state), and leaves
\* the turns and the states of the other chats as they were.
C15_SetPersonaKeepsCount ==
    [][ret'.op = "update_chat_persona" =>
          LET c      == ret'.chat_id
              before == StateRows(chat_states, c)
              count  == IF before = {} THEN 0
                        ELSE (CHOOSE s \in before : TRUE).message_count
          IN  /\ StateRows(chat_states', c) =
                     {ChatState(c, ret'.persona, count)}
              /\ messages' = messages
              /\ \A d \in Chats \ {c} :
                     StateRows(chat_states', d) = StateRows(chat_states, d)]_vars

\* C15 witness: update_chat_persona has set ben on a chat that holds turns
\* and a counter above zero.
C15_Witness ==
    /\ ret.op = "update_chat_persona"
    /\ ret.persona = "ben"
    /\ ChatRows(messages, ret.chat_id) # {}
    /\ \E s \in StateRows(chat_states, ret.chat_id) :
           s.current_persona = "ben" /\ s.message_count > 0

\* C16: the state a chat gets on first contact has persona business unless
\* update_chat_persona creates it, and the persona of a chat that has a
\* state is changed by no step but update_chat_persona.
C16_PersonaChangesOnlyBySelection ==
    [][\A c \in Chats :
          (ret'.op # "update_chat_persona" /\ StateRows(chat_states', c) # {})
          => PersonaOf(chat_states', c) = PersonaOf(chat_states, c)]_vars

\* C16 witness: a chat whose persona was set to bella has since been saved
\* to, and still has persona bella.
C16_Witness ==
    /\ ret.op = "save_message"
    /\ ret.status = "return"
    /\ Len(recorded[ret.chat_id]) > 1
    /\ PersonaOf(chat_states, ret.chat_id) = "bella"

\* C17: save_message is all-or-nothing.  A call that raised leaves the turns,
\* the states and the rowid sequence as they were before it; a call that
\* returned shows the new turn, the counter recomputed with it and the trim
\* together.
C17_SaveAllOrNothing ==
    [][ret'.op = "save_message" =>
          LET c == ret'.chat_id
          IN  IF ret'.status = "raise"
              THEN /\ messages' = messages
                   /\ chat_states' = chat_states
                   /\ next_id' = next_id
              ELSE ret' # ret =>
                   /\ \E m \in ChatRows(messages', c) : m.id = ret'.value
                   /\ ret'.value \notin {m.id : m \in messages}
                   /\ \E st \in StateRows(chat_states', c) :
                          st.message_count =
                              Cardinality(ChatRows(messages, c)) + 1
                   /\ Cardinality(ChatRows(messages', c))
                          <= MESSAGE_HISTORY_LIMIT]_vars

\* C17 witness: a save_message has raised on a chat that holds
\* MESSAGE_HISTORY_LIMIT turns, so that its insert, its counter update and its
\* trim would each have changed the store.
C17_Witness ==
    /\ ret.op = "save_message"
    /\ ret.status = "raise"
    /\ Cardinality(ChatRows(messages, ret.chat_id)) = MESSAGE_HISTORY_LIMIT
    /\ \A st \in StateRows(chat_states, ret.chat_id) :
           st.message_count = MESSAGE_HISTORY_LIMIT

\* C18 (as claimed): get_chat_history(c, limit, hours_back) returns only
\* turns of c, at most limit of them (MESSAGE_HISTORY_LIMIT without limit),
\* oldest first, and they are the newest of the turns of c created no earlier
\* than hours_back before the time of the call (of all turns of c when no
\* hours_back is given).
C18_FetchWindow ==
    ret.op = "get_chat_history" =>
        LET rows     == ret.value
            lim      == IF ret.limit = None THEN MESSAGE_HISTORY_LIMIT
                        ELSE ret.limit[1]
            eligible == {m \in ChatRows(messages, ret.chat_id) :
                            \/ ret.hours_back = None
                            \/ m.created_at >= now - ret.hours_back[1]}
        IN  /\ \A i \in 1..Len(rows) : rows[i].chat_id = ret.chat_id
            /\ Len(rows) = Min(lim, Cardinality(eligible))
            /\ Range(rows) \subseteq eligible
            /\ \A i, j \in 1..Len(rows) :
                   i < j => rows[i].created_at <= rows[j].created_at
            /\ \A m \in eligible \ Range(rows), r \in Range(rows) :
                   m.created_at <= r.created_at

(***************************************************************************)
(* Properties of the retriever (specification SpecPipeline).               *)
(***************************************************************************)
\* A direct call of search_similar has returned what the index answered.
SearchReturned ==
    /\ pc = "done"
    /\ entry.op = "search_similar"
    /\ sr.status = "return"
    /\ sr.index.kind = "ok"

\* C19 (as claimed): for every threshold t in [0, 1] the caller passes, 0
\* included, search_similar returns exactly those of the neighbours the index
\* reported whose similarity is at least t.
C19_ThresholdFilter ==
    (SearchReturned /\ entry.threshold # None) =>
        LET t    == Frac(entry.threshold[1], 10)
            kept == {i \in 1..Len(sr.index.neighbours) :
                        ~FracLess(Similarity(sr.index.neighbours[i].distance), t)}
        IN  /\ \A i \in 1..Len(sr.value) : ~FracLess(sr.value[i].similarity, t)
            /\ {sr.value[i].content : i \in 1..Len(sr.value)}
                   = {sr.index.neighbours[i].doc : i \in kept}

\* a/b = c/d for fractions with positive denominators.
FracEq(a, c) == a.num * c.den = c.num * a.den

\* The similarity claimed for a distance d given in tenths.
ClaimedSimilarity(s, d) ==
    /\ s.den > 0
    /\ 0 <= s.num /\ s.num <= s.den
    /\ d <= 10 => FracEq(s, Frac(10 - d, 10))
    /\ (10 < d /\ d <= 20) => FracEq(s, Frac(20 - d, 20))
    /\ d > 20 => FracEq(s, Frac(10, 10 + d))

\* C20: for every distance d >= 0 the index reports, the similarity
\* search_similar computes lies in [0, 1] and is 1 - d for d <= 1, 1 - d/2 for
\* 1 < d <= 2 and 1/(1 + d) for d > 2; the results returned carry it.
C20_SimilarityBands ==
    SearchReturned =>
        /\ \A i \in 1..Len(sr.index.neighbours) :
               LET d == sr.index.neighbours[i].distance
               IN  d >= 0 => ClaimedSimilarity(Similarity(d), d)
        /\ \A i \in 1..Len(sr.value) :
               ClaimedSimilarity(sr.value[i].similarity, sr.value[i].distance)

\* C20 witness: search_similar has returned two results, one at distance 1.5
\* (similarity 0.25) and one at distance 2.5 (similarity 1/3.5).
C20_Witness ==
    /\ SearchReturned
    /\ Len(sr.value) = 2
    /\ {sr.value[i].distance : i \in 1..2} = {15, 25}

\* C21 (as claimed): the conversion is monotonic over all three bands: of two
\* neighbours the index reports, the one at the strictly smaller distance
\* never gets the smaller similarity.
C21_SimilarityMonotonic ==
    SearchReturned =>
        \A i, j \in 1..Len(sr.index.neighbours) :
            LET d1 == sr.index.neighbours[i].distance
                d2 == sr.index.neighbours[j].distance
            IN  d1 < d2 => ~FracLess(Similarity(d1), Similarity(d2))

(***************************************************************************)
(* Properties of the vector index service (specification SpecIndex).       *)
(***************************************************************************)
\* C22: add_document with empty or whitespace-only content ends with an
\* error raised to its caller, requests no embedding and leaves the
\* collection as it was.
C22_BlankContentRefused ==
    /\ \A p \in pending : Strip(p.content) # <<>>
    /\ (iret.op = "add_document" /\ Strip(iret.content) = <<>>) =>
           /\ iret.status = "raise"
           /\ iret.embedding_calls = 0
           /\ iret.after = iret.before

\* C22 witness: add_document of a whitespace-only content has raised on a
\* collection that holds entries, with the client already open.
C22_Witness ==
    /\ iret.op = "add_document"
    /\ iret.content = <<WS>>
    /\ iret.status = "raise"
    /\ iret.before # {}
    /\ client # None

\* C23 (as claimed): every add_document that returns has inserted exactly one
\* new entry, under an id that no entry of the collection had before, two
\* calls at the same clock reading included.
C23_AddInsertsFreshId ==
    (iret.op = "add_document" /\ iret.status = "return") =>
        /\ iret.value \notin EntryIds(iret.before)
        /\ Cardinality(iret.after) = Cardinality(iret.before) + 1
        /\ \E e \in iret.after \ iret.before : e.id = iret.value

\* The contents of the .txt files of a directory.
TxtContents(dir) ==
    [f \in {g \in DOMAIN dir.files : EndsWithTxt(g)} |-> dir.files[f]]

\* C24 (as claimed): when the .txt files are as the last completed build read
\* them and the collection is not empty, initialize_knowledge_base_sync
\* requests no embedding and leaves the collection as it was; when a file
\* has changed since, a call that returns has rebuilt the collection.
C24_RebuildOnlyOnChange ==
    (iret.op = "initialize" /\ iret.kb.exists /\ iret.built_from # None) =>
        LET unchanged == /\ iret.built_from[1].exists
                         /\ TxtContents(iret.kb) = TxtContents(iret.built_from[1])
        IN  /\ (unchanged /\ iret.before # {}) =>
                   /\ iret.embedding_calls = 0
                   /\ iret.after = iret.before
            /\ (~unchanged /\ iret.status = "return") =>
                   iret.path \in {"rebuilt", "empty"}

\* The files whose lines are indexed, and their retained lines: trimmed,
\* not empty, at least 10 characters.
IndexedFiles(dir) ==
    {f \in DOMAIN dir.files :
        EndsWithTxt(f) /\ ~IsPromotionsFile(f) /\ dir.files[f].readable}

RetainedLines(dir) ==
    UNION {{<<f, i>> : i \in {j \in 1..Len(dir.files[f].lines) :
                LET line == Strip(dir.files[f].lines[j])
                IN  line # <<>> /\ TextLength(line) >= 10}} :
           f \in IndexedFiles(dir)}

\* C25: after a rebuild that returns, the collection holds exactly one entry
\* per retained line of the corpus the rebuild read, under pairwise distinct
\* ids, and nothing of what it held before.
C25_RebuildExact ==
    (iret.op = "initialize" /\ iret.status = "return"
        /\ iret.path \in {"rebuilt", "empty"}) =>
        LET R == RetainedLines(iret.kb)
            TextOf(r) == Strip(iret.kb.files[r[1]].lines[r[2]])
        IN  /\ Cardinality(iret.after) = Cardinality(R)
            /\ Cardinality(EntryIds(iret.after)) = Cardinality(iret.after)
            /\ \A e \in iret.after :
                   /\ e.file \in IndexedFiles(iret.kb)
                   /\ Cardinality({x \in iret.after :
                            x.file = e.file /\ x.document = e.document})
                      = Cardinality({r \in R :
                            r[1] = e.file /\ TextOf(r) = e.document})
            /\ \A r \in R : \E e \in iret.after :
                   e.file = r[1] /\ e.document = TextOf(r)

\* C25 witness: a rebuild has replaced a collection that held an added
\* document by the three retained lines of the base corpus.
C25_Witness ==
    /\ iret.op = "initialize"
    /\ iret.status = "return"
    /\ iret.path = "rebuilt"
    /\ \E e \in iret.before : e.file = ""
    /\ Cardinality(iret.after) = 3

\* C26: two rebuilds of the index never interleave: at most one activation
\* of initialize_knowledge_base_sync is between its start and its end.
C26_RebuildsNeverInterleave == Cardinality(rebuilding) <= 1

\* C26 witness: a rebuild is under way, after its clearing and before its
\* insertion, while an add_document call awaits its embedding and a further
\* call could be made.
C26_Witness ==
    /\ rebuilding # {}
    /\ pending # {}
    /\ next_call <= MaxCalls

(***************************************************************************)
(* Properties of the handlers (specification SpecHandler).                 *)
(***************************************************************************)
\* generate_response has returned to the handler h.
GenerateReturned(h) ==
    h.pc \in {"save_reply", "send"} /\ h.at_return # NoSnapshot

\* C27 (as claimed): a generate_response call that produces a reply has
\* recorded exactly one new turn by the time it returns, the assistant's
\* reply.
C27_GenerateRecordsReply ==
    \A h \in running :
        h.pc = "save_reply" =>
            /\ h.at_return.next_id = h.at_call.next_id + 1
            /\ \E m \in h.at_return.messages :
                   /\ m.id = h.at_call.next_id
                   /\ m.role = "assistant"
                   /\ m.content = h.response

\* C27 (amended): generate_response records no turn: when it returns the
\* store is as it was when it was called.  Its caller records both turns:
\* the request before the call (none for /start), and after the call
\* exactly one new turn, the assistant's reply with the returned text.
C27_CallerRecordsReply ==
    \A h \in running :
        /\ GenerateReturned(h) =>
               /\ h.at_return = h.at_call
               /\ h.kind = "text" =>
                      \E m \in h.at_call.messages :
                          /\ m.id = h.request_id
                          /\ m.chat_id = h.chat_id
                          /\ m.role = "user"
                          /\ m.content = h.text
        /\ (h.pc = "send" /\ h.reply_id # 0) =>
               /\ next_id = h.at_return.next_id + 1
               /\ h.reply_id = h.at_return.next_id
               /\ {m.id : m \in messages} \
                      {m.id : m \in h.at_return.messages} = {h.reply_id}
               /\ \E m \in messages :
                      /\ m.id = h.reply_id
                      /\ m.chat_id = h.chat_id
                      /\ m.role = "assistant"
                      /\ m.content = h.response

\* C27 witness: the handler of a question has saved the reply that
\* generate_response returned and is about to send it.
C27_Witness ==
    \E h \in running :
        /\ h.kind = "text"
        /\ h.pc = "send"
        /\ h.request_id # 0
        /\ h.reply_id # 0
        /\ h.response = <<"reply">>

\* The place of the turn id in a fetched history, 0 if it is not listed.
PlaceOf(rows, id) ==
    IF \E i \in 1..Len(rows) : rows[i].id = id
    THEN CHOOSE i \in 1..Len(rows) : rows[i].id = id
    ELSE 0

\* The fetches a caller can make of a chat's history from now on.
FetchLimits == Limits \cup {Some(GENERATE_HISTORY_LIMIT)}

C29_HandlersNeverInterleave ==
    \A g, h \in running : g.chat_id = h.chat_id => g = h

\* C29 witness: a handler is suspended in generate_response while the next
\* update of the same chat waits in the queue.
C29_Witness ==
    \E h \in running :
        /\ h.pc = "generate"
        /\ updates # <<>>
        /\ Head(updates).chat_id = h.chat_id

(***************************************************************************)
(* Properties of the audit log (specification SpecPipeline).               *)
(***************************************************************************)
\* The appends to the audit files that failed during this call.
FailedAppends == {i \in 1..Len(audit) : ~audit[i].written}

\* What generate_response returns on the outcomes of the store and of the
\* generation backend when every audit append succeeds.
ResponseWithAudit ==
    IF gen.outcome = NotCalled THEN Return(ERROR_MESSAGE)
    ELSE IF NonEmptyText(gen.outcome) THEN Return(gen.outcome.content)
    ELSE Return(ERROR_MESSAGE)

\* C30: the outcome of the audit appends does not influence the response:
\* whichever appends fail, generate_response returns what it returns on the
\* same outcomes of the store and of the backends when all of them succeed,
\* and the backends are called as often.
C30_AuditDoesNotInfluence ==
    (GenerateDone /\ FailedAppends # {}) =>
        /\ gen.status = ResponseWithAudit.status
        /\ gen.value = ResponseWithAudit.value
        /\ gen.outcome # NotCalled => calls.generation = 1
        /\ gen.outcome = NotCalled => gen.failed = "history"

\* C30 witness: the append of the request and the append of the response
\* both failed, and generate_response returned the backend's text.
C30_Witness ==
    /\ GenerateDone
    /\ \E i, j \in FailedAppends :
           audit[i].entry = "request" /\ audit[j].entry = "response"
    /\ gen.status = "return"
    /\ gen.value = <<"w">>

(***************************************************************************)
(* Properties of the conversation store, continued                         *)
(***************************************************************************)

\* C31: once a chat has a chat_states row, every later state the store
\* operations lead to holds exactly one row for it: no operation deletes the
\* row and none adds a second one.
C31_ExactlyOneState ==
    [][\A c \in Chats :
          StateRows(chat_states, c) # {}
              => Cardinality(StateRows(chat_states', c)) = 1]_vars

\* A chat whose row was created, replaced by a persona selection and then
\* met by clear_chat_history.
C31_Witness ==
    /\ ret.op = "clear_chat_history"
    /\ \E s \in StateRows(chat_states, ret.chat_id) :
           s.current_persona # "business"

(***************************************************************************)
(* Properties of the generation pipeline, continued                        *)
(***************************************************************************)
\* The knowledge texts carried by the system messages of an assembled context.
KnowledgeIn(out) ==
    {out[i].content.context : i \in {j \in 1..Len(out) : out[j].role = "system"}}

\* C32: within one call of generate_response, once the classifier has
\* returned, search_similar is invoked exactly when it returned a query, and
\* with that query; when it returned None neither the search nor the embedding
\* backend is called and the context is assembled without knowledge text.
C32_SearchIffQuery ==
    (/\ entry.op = "generate_response"
     /\ tq.status # "none"
     /\ pc \in {"build", "backend", "done"})
    => /\ (sr.status # "none") <=> (tq.value # None)
       /\ sr.status # "none" => sr.query = tq.value[1]
       /\ tq.value = None
              => /\ calls.embedding = 0
                 /\ calls.index_query = 0
                 /\ vector_context = None
                 /\ KnowledgeIn(context_messages) \subseteq {None}

\* C32 witness: a call whose classifier failed open and whose search ran
\* with the original message.
C32_Witness ==
    /\ entry.op = "generate_response"
    /\ pc = "backend"
    /\ tq.outcome.kind # "ok"
    /\ sr.status = "return"
    /\ sr.query = entry.query
    /\ calls.embedding = 1

(***************************************************************************)
(* Properties of the turn log, continued                                   *)
(***************************************************************************)
\* Recency as the trim has it: a later created_at, and for equal created_at
\* the larger id.
LaterThan(k, d) ==
    \/ k.created_at > d.created_at
    \/ (k.created_at = d.created_at /\ k.id > d.id)

NeighbourPlace(neighbours, doc) ==
    CHOOSE i \in 1..Len(neighbours) : neighbours[i].doc = doc

FracEqual(a, b) == a.num * b.den = b.num * a.den

\* C34: the results search_similar returns are ordered by similarity,
\* descending, and results of equal similarity stand in the order in which the
\* index returned them.
C34_SortedStable ==
    (sr.status = "return" /\ sr.index.kind = "ok")
    => \A i, j \in 1..Len(sr.value) :
           i < j =>
               /\ ~FracLess(sr.value[i].similarity, sr.value[j].similarity)
               /\ FracEqual(sr.value[i].similarity, sr.value[j].similarity)
                      => NeighbourPlace(sr.index.neighbours, sr.value[i].content)
                             < NeighbourPlace(sr.index.neighbours,
                                              sr.value[j].content)

\* C34 witness: two results of equal similarity were returned.
C34_Witness ==
    /\ sr.status = "return"
    /\ sr.index.kind = "ok"
    /\ Len(sr.value) = 2
    /\ FracEqual(sr.value[1].similarity, sr.value[2].similarity)

(***************************************************************************)
(* Properties of the vector index service, continued                       *)
(***************************************************************************)
\* A rebuild that aborted on its embeddings: the embedding call failed, or it
\* returned another number of embeddings than there are documents.
RebuildAborted ==
    /\ iret.op = "initialize"
    /\ iret.status = "raise"
    /\ iret.path \in {"error", "mismatch"}

\* C35: after a rebuild that aborted on its embeddings the collection holds
\* either exactly what it held before the call or nothing, never a part of
\* the old or of the new entries.
C35_AbortLeavesOldOrEmpty ==
    RebuildAborted => iret.after \in {iret.before, {}}

\* C35 witness: a rebuild over a filled collection aborted on a count
\* mismatch, the collection already cleared.
C35_Witness ==
    /\ RebuildAborted
    /\ iret.path = "mismatch"
    /\ Cardinality(iret.before) > 1
    /\ iret.after = {}
    /\ collection = {}

\* C36 (as claimed): after a rebuild, the line_number of every entry is the
\* 1-based position, in the entry's source file, of the line the entry was
\* made from, blank and short lines before it counted.
C36_LineNumberIsFilePosition ==
    (iret.op = "initialize" /\ iret.status = "return" /\ iret.path = "rebuilt")
    => \A e \in iret.after :
           /\ <<e.file, e.line_number>> \in RetainedLines(iret.kb)
           /\ Strip(iret.kb.files[e.file].lines[e.line_number]) = e.document

(***************************************************************************)
(* Isolation of the chats in the store                                     *)
(***************************************************************************)
\* C37: save_message (its trim included), clear_chat_history, get_chat_state
\* and update_chat_persona on one chat leave the turns and the state row
\* (persona and message_count) of every other chat as they were.
C37_ChatsIsolated ==
    [][ret'.op \in {"save_message", "clear_chat_history", "get_chat_state",
                    "update_chat_persona"}
       => \A d \in Chats \ {ret'.chat_id} :
              /\ ChatRows(messages', d) = ChatRows(messages, d)
              /\ StateRows(chat_states', d) = StateRows(chat_states, d)]_vars

\* C37 witness: a save_message on one chat has committed while the other chat
\* holds turns and a state with a selected persona.
C37_Witness ==
    /\ ret.op = "save_message"
    /\ ret.status = "return"
    /\ \E d \in Chats \ {ret.chat_id} :
           /\ Cardinality(ChatRows(messages, d)) = MESSAGE_HISTORY_LIMIT
           /\ \E s \in StateRows(chat_states, d) :
                  s.current_persona = "ben" /\ s.message_count > 0

(***************************************************************************)
(* Properties of the message-handling path                                 *)
(***************************************************************************)
\* generate_response was called by _handle_user_question, which has saved the
\* current message as the chat's newest user turn.
CalledAfterSave ==
    /\ entry.op = "generate_response"
    /\ \E m \in ChatRows(messages, entry.chat_id) :
           /\ m = Newest(ChatRows(messages, entry.chat_id))
           /\ m.role = "user"
           /\ m.content = entry.query

\* The places of the current user message in a sequence sent to the backend.
PlacesOfCurrent(out) ==
    {i \in 1..Len(out) : out[i].role = "user" /\ out[i].content = entry.query}

\* C38 (as claimed): on the message-handling path the sequence sent to the
\* generation backend holds the current user message exactly once, as its
\* last entry, and not among the history turns.
C38_CurrentMessageOnce ==
    (CalledAfterSave /\ pc \in {"backend", "done"} /\ context_messages # <<>>)
    => PlacesOfCurrent(context_messages) = {Len(context_messages)}

\* C39 (as claimed): whenever the retrieval of a generate_response call gave
\* a non-empty knowledge text, the system message sent to the backend
\* contains that text, whatever the persona and whichever template the prompt
\* was made from (the persona's file or the built-in default prompt).
C39_KnowledgeInSystemMessage ==
    (/\ entry.op = "generate_response"
     /\ Truthy(vector_context)
     /\ pc \in {"backend", "done"}
     /\ context_messages # <<>>)
    => /\ context_messages[1].role = "system"
       /\ context_messages[1].content.context = vector_context

\* C40 (as claimed): every assistant turn of the store holds a text the
\* generation backend produced: config.ERROR_MESSAGE, which generate_response
\* returns after a failed generation, is never saved as a turn.
C40_FallbackNeverStored ==
    \A m \in messages : m.role = "assistant" => m.content # ERROR_MESSAGE

====
